---- MODULE Spec2Model ----
(***************************************************************************)
(* A model of tauri-plugin-mcp: the host<->webview request/response bridge *)
(* and the in-webview handlers of src/src/scripts/init.iife.js.            *)
(*                                                                         *)
(* The module holds several specifications over one set of variables; a    *)
(* specification leaves the variables of the other parts unchanged.        *)
(*   Spec          the Webview Event Bridge with the handlers as black     *)
(*                 boxes (dispatch, handler start/finish, response,        *)
(*                 deadline, connection teardown)                          *)
(*   SpecHandlers  one handler invocation, step by step, on every path     *)
(*   SpecRpc       the iframe-rpc path with its timers, end to end         *)
(* Time is counted in the spec's time units (seconds).                     *)
(***************************************************************************)
EXTENDS Integers, Sequences, FiniteSets, TLC

(***************************************************************************)
(* Bounds of the model.                                                    *)
(***************************************************************************)
MaxReq == 2
MaxIframes == 2
MaxRpcCalls == 2
MaxDispatch == 2
MaxText == 2
MaxElems == 3
MaxPixels == 4

(***************************************************************************)
(* Part 1: the Webview Event Bridge.                                       *)
(***************************************************************************)
VARIABLES
  waited,     \* waited[r]: time the live deadline timer of r has run
  nreq,       \* number of requests forwarded so far; request ids are 1..nreq
  req,        \* req[r]: the forwarded request r (connection, command, deadline)
  pending,    \* the pending-request table: ids of the requests with an entry
  timer,      \* timer[r]: "off", "armed", or "fired" (expiry queued for the table)
  outcomes,   \* outcomes[r]: the terminal outcomes handed to the caller of r
  handler,    \* handler[r]: the handler invocation the event of r triggers
  respq,      \* response events emitted by handlers and not yet seen by the bridge
  dropped,    \* response events the bridge saw and dropped
  connected,  \* connected[c]: the client connection c is up
  cancelled   \* requests cancelled by the teardown of their connection

bridgeVars == <<waited, nreq, req, pending, timer, outcomes, handler, respq,
                dropped, connected, cancelled>>

\* Part 2: one in-webview handler invocation.
VARIABLES
  hcmd,       \* the event the running handler was registered for, or "none"
  hinput,     \* what the event payload and the document make the operation do
  hpc,        \* where the handler is: "idle", "op", "await_rpc", "composite",
              \* "emit", "catch", "done"
  hpayload,   \* the payload the try block is about to emit
  hiframes,   \* capture-screenshot: iframes still to composite
  hemitted,   \* the response events this invocation got onto the event channel
  hchan,      \* what the event channel did with the last emit call
  hraised,    \* an exception reached the catch block of the handler
  hescaped    \* an exception left the handler

handlerVars == <<hcmd, hinput, hpc, hpayload, hiframes, hemitted, hchan,
                 hraised, hescaped>>

\* Part 3: iframe-rpc calls end to end, with their timers.
VARIABLES
  rcalls,     \* number of iframe_rpc calls forwarded; the calls are 1..rcalls
  rtmo,       \* rtmo[c]: the per-call timeout the host waits for
  rhost,      \* rhost[c]: "none", "pending" or "settled" on the host side
  rgot,       \* rgot[c]: what the caller of c was handed
  relapsed,   \* relapsed[c]: time since c was forwarded, while the host waits
  rpc,        \* rpc[c]: the handler of c: "none", "queued", "await", "emit", "done"
  rresult,    \* rresult[c]: what the response promise of the handler resolved to
  rtimer,     \* rtimer[c]: the setTimeout of the handler: "off" or "armed"
  rhwait,     \* rhwait[c]: time the setTimeout of the handler has run
  rlisten,    \* calls whose 'message' listener is registered on the window
  rposted,    \* moss-rpc-call messages posted and not answered by the iframe
  rmsgs,      \* moss-rpc-result messages on their way to the window
  rresp       \* iframe-rpc-response events on their way to the host

rpcVars == <<rcalls, rtmo, rhost, rgot, relapsed, rpc, rresult, rtimer, rhwait,
             rlisten, rposted, rmsgs, rresp>>

\* Part 4: the Transport Listener and the Command Dispatcher.
VARIABLES
  dlistening, \* the listener accepts connections and frames requests
  dopen,      \* dopen[c]: the client connection c is open
  dwindows,   \* the labels of the windows that exist
  dcount,     \* number of request envelopes framed so far
  dlast,      \* the request envelope framed last
  dinflight,  \* requests forwarded to the bridge and not settled
  dout        \* the response envelopes written, each to its connection

dispatchVars == <<dlistening, dopen, dwindows, dcount, dlast, dinflight, dout>>

\* Part 5: send-text-to-element invocations typing into one <input> or
\* <textarea> of the document.
VARIABLES
  ekind,      \* the target element: "input" or "textarea"
  evalue,     \* element.value
  tpc,        \* tpc[h]: where invocation h is
  ttext,      \* ttext[h]: the text of the payload
  tdelay,     \* tdelay[h]: delayMs of the payload
  ti,         \* ti[h]: the loop counter i of the typing loop
  tthread,    \* the invocation whose synchronous run is on the JS thread, or 0
  tlog,       \* the invocations that mutated the element, in order of mutation
  tresp       \* tresp[h]: the success response of h with element.value at emit

typingVars == <<ekind, evalue, tpc, ttext, tdelay, ti, tthread, tlog, tresp>>

\* Part 6: element lookup in get-element-position and send-text-to-element.
VARIABLES
  ldoc,       \* the elements of the document, in document order
  lcmd,       \* the handler: "get-element-position" or "send-text-to-element"
  ltype,      \* event.payload.selectorType
  lvalue,     \* event.payload.selectorValue
  lpc,        \* "switch", "found", "throw" or "done"
  lelement,   \* element: the index of the element in ldoc, or Null
  ldebug,     \* debugInfo
  lresp       \* the response payload emitted

lookupVars == <<ldoc, lcmd, ltype, lvalue, lpc, lelement, ldebug, lresp>>

\* Part 7: one capture-screenshot invocation.
VARIABLES
  cpc,        \* where the invocation is
  csvg,       \* how the SVG rasterization of this capture ends
  cctx,       \* canvas.getContext('2d') yields a context
  cframes,    \* the iframes of the document, in document order
  cstages,    \* the rendering stages that ran, in order
  cnext,      \* the iframe the loop of compositeIframeContent is at
  cwait,      \* "waiting" while captureIframeContent waits for an answer
  cclock,     \* time the timer of captureIframeContent has run
  ctime,      \* time the capture has spent waiting for iframes
  cposted,    \* the iframe holding an unanswered capture request, or 0
  cmsgs,      \* messages posted to the window and not delivered
  cdrawn,     \* the iframes whose capture was drawn
  cimgs,      \* the document shows a loaded <img> of another origin
  ctainted,   \* what made the canvas not origin-clean, if anything did
  cresp       \* the capture-screenshot-response emitted

captureVars == <<cpc, csvg, cctx, cimgs, cframes, cstages, cnext, cwait,
                 cclock, ctime, cposted, cmsgs, cdrawn, ctainted, cresp>>

\* Part 8: the canvas capturePageAsImage creates for one viewport.
VARIABLES
  viewportWidth,   \* window.innerWidth
  viewportHeight,  \* window.innerHeight
  maxWidth,        \* the maxWidth of the request
  canvasWidth,     \* canvas.width, or NotSized before the canvas exists
  canvasHeight     \* canvas.height, or NotSized

scaleVars == <<viewportWidth, viewportHeight, maxWidth, canvasWidth,
               canvasHeight>>

\* Part 9: localStorage and the get-local-storage handler.
VARIABLES
  storage,    \* localStorage: storage[k] is the string under k, or Absent
  sreq,       \* the payload of the last get-local-storage event handled
  sresp,      \* the get-local-storage-response emitted for it
  margs,      \* the arguments of the manage_local_storage call under way
  mstage,     \* where that call is
  msent,      \* the command the tool sent for it, or NoStorageCommand
  mresult     \* the result the tool returned for it

storageVars == <<storage, sreq, sresp, margs, mstage, msent, mresult>>

\* Part 10: one send-text-to-element invocation on an element of any kind.
VARIABLES
  jkind,      \* what the target element is
  jtext,      \* the text of the request
  jfault,     \* the stage of the typing function in which a DOM call throws
  jprevent,   \* a listener of the page calls preventDefault on beforeinput
  jpc,        \* where the invocation is
  ji,         \* characters typed so far
  jcontent,   \* the value, or the text content, of the target
  jcaught,    \* the catch block of the typing function has run
  jlog,       \* what the handler did to the element, in order
  jresp,      \* the send-text-to-element-response emitted
  jelement,   \* the element found: its tag and what makes it editable
  jpath       \* the text-injection paths the handler took, in order

injectVars == <<jkind, jtext, jfault, jprevent, jpc, ji, jcontent, jcaught,
                jlog, jresp, jelement, jpath>>

\* Part 11: the parameters of one capture_screenshot call on their way from
\* the tool to capturePageAsImage.
VARIABLES
  pargs,      \* the arguments the tool was called with
  pstage,     \* where the call is
  psent,      \* the params of the command the tool sent, or NoCommand
  ppayload,   \* the payload of the capture-screenshot event
  pcapture    \* the window label, quality and maxWidth the capture runs with

paramVars == <<pargs, pstage, psent, ppayload, pcapture>>

\* Part 12: one execute-js invocation and the value its code evaluates to.
VARIABLES
  xvalue,     \* the value the code of the request stands for
  xform,      \* what kind of code the request carries
  xpc,        \* where the invocation is
  xresult,    \* what executeJavaScript returned
  xresp,      \* the execute-js-response emitted
  xruns       \* number of times the code of the request has run

execVars == <<xvalue, xform, xpc, xresult, xresp, xruns>>

\* Part 13: the live document and the clone that a capture renders.
VARIABLES
  liveDoc,    \* document.body: its inline style and its child elements
  startDoc,   \* the live document as it was when the capture began
  clone,      \* the deep clone renderDomToCanvas works on
  docPc,      \* where the capture is
  docI,       \* the child inlineStyles has reached
  docSvg,     \* whether the SVG image of the clone renders
  docCanvas,  \* the layers drawn on the output canvas
  docCreated, \* how many object URLs URL.createObjectURL has made
  docRevoked  \* how many times URL.revokeObjectURL was called on them

docVars == <<liveDoc, startDoc, clone, docPc, docI, docSvg, docCanvas,
             docCreated, docRevoked>>

\* Part 14: one iframe-rpc invocation and the messages its window gets.
VARIABLES
  ypc,        \* where handleIframeRpcRequest is
  yiframe,    \* what getElementById('moss-preview-iframe') finds
  ylistener,  \* the 'message' listener of the call is registered
  ytimer,     \* the setTimeout of the call: "off", "armed" or "fired"
  yposts,     \* number of moss-rpc-call messages posted to the iframe
  ysent,      \* number of messages posted to the window so far
  yinbox,     \* messages posted to the window and not dispatched yet
  yhandled,   \* messages the window has dispatched, in order
  yresolved,  \* what the response promise resolved to
  yemitted    \* the iframe-rpc-response events emitted, in order

callVars == <<ypc, yiframe, ylistener, ytimer, yposts, ysent, yinbox,
              yhandled, yresolved, yemitted>>

\* Part 15: one captureIframeContent call and the messages its window gets.
VARIABLES
  zpc,        \* where the call is: "idle", "call", "pending", "returned"
  zwindow,    \* iframe.contentWindow is there
  zlistener,  \* the 'message' listener of the call is registered
  ztimer,     \* the deadline timer: "off", "armed", "fired" or "cleared"
  zposts,     \* number of moss-capture-preview messages posted
  zsent,      \* number of messages posted to the window so far
  zinbox,     \* messages posted to the window and not dispatched yet
  zhandled,   \* messages the window has dispatched, in order
  zresolves,  \* the values resolve was called with, in order
  zreturn     \* what the call gave its caller

frameVars == <<zpc, zwindow, zlistener, ztimer, zposts, zsent, zinbox,
               zhandled, zresolves, zreturn>>

vars == <<bridgeVars, handlerVars, rpcVars, dispatchVars, typingVars,
          lookupVars, captureVars, scaleVars, storageVars, injectVars,
          paramVars, execVars, docVars, callVars, frameVars>>

\* What each part leaves alone.
notBridgeVars == <<handlerVars, rpcVars, dispatchVars, typingVars, lookupVars,
                   captureVars, scaleVars, storageVars, injectVars, paramVars,
                   execVars, docVars, callVars, frameVars>>
notHandlerVars == <<bridgeVars, rpcVars, dispatchVars, typingVars, lookupVars,
                    captureVars, scaleVars, storageVars, injectVars,
                    paramVars, execVars, docVars, callVars, frameVars>>
notRpcVars == <<bridgeVars, handlerVars, dispatchVars, typingVars, lookupVars,
                captureVars, scaleVars, storageVars, injectVars, paramVars,
                execVars, docVars, callVars, frameVars>>
notDispatchVars == <<bridgeVars, handlerVars, rpcVars, typingVars, lookupVars,
                     captureVars, scaleVars, storageVars, injectVars,
                     paramVars, execVars, docVars, callVars, frameVars>>
notTypingVars == <<bridgeVars, handlerVars, rpcVars, dispatchVars, lookupVars,
                   captureVars, scaleVars, storageVars, injectVars, paramVars,
                   execVars, docVars, callVars, frameVars>>
notLookupVars == <<bridgeVars, handlerVars, rpcVars, dispatchVars, typingVars,
                   captureVars, scaleVars, storageVars, injectVars, paramVars,
                   execVars, docVars, callVars, frameVars>>
notCaptureVars == <<bridgeVars, handlerVars, rpcVars, dispatchVars,
                    typingVars, lookupVars, scaleVars, storageVars,
                    injectVars, paramVars, execVars, docVars, callVars,
                    frameVars>>
notScaleVars == <<bridgeVars, handlerVars, rpcVars, dispatchVars, typingVars,
                  lookupVars, captureVars, storageVars, injectVars, paramVars,
                  execVars, docVars, callVars, frameVars>>
notStorageVars == <<bridgeVars, handlerVars, rpcVars, dispatchVars,
                    typingVars, lookupVars, captureVars, scaleVars,
                    injectVars, paramVars, execVars, docVars, callVars,
                    frameVars>>
notInjectVars == <<bridgeVars, handlerVars, rpcVars, dispatchVars, typingVars,
                   lookupVars, captureVars, scaleVars, storageVars, paramVars,
                   execVars, docVars, callVars, frameVars>>
notParamVars == <<bridgeVars, handlerVars, rpcVars, dispatchVars, typingVars,
                  lookupVars, captureVars, scaleVars, storageVars, injectVars,
                  execVars, docVars, callVars, frameVars>>
notExecVars == <<bridgeVars, handlerVars, rpcVars, dispatchVars, typingVars,
                 lookupVars, captureVars, scaleVars, storageVars, injectVars,
                 paramVars, docVars, callVars, frameVars>>
notDocVars == <<bridgeVars, handlerVars, rpcVars, dispatchVars, typingVars,
                lookupVars, captureVars, scaleVars, storageVars, injectVars,
                paramVars, execVars, callVars, frameVars>>
notCallVars == <<bridgeVars, handlerVars, rpcVars, dispatchVars, typingVars,
                 lookupVars, captureVars, scaleVars, storageVars, injectVars,
                 paramVars, execVars, docVars, frameVars>>
notFrameVars == <<bridgeVars, handlerVars, rpcVars, dispatchVars, typingVars,
                  lookupVars, captureVars, scaleVars, storageVars, injectVars,
                  paramVars, execVars, docVars, callVars>>

Conns == {"c1", "c2"}
Requests == 1..MaxReq

\* The events setupPluginListeners subscribes to; the bridge part draws its
\* commands from BridgeCommands.
WebviewCommands == {"got-dom-content", "get-local-storage", "execute-js",
                    "get-element-position", "send-text-to-element",
                    "capture-screenshot", "iframe-rpc"}
BridgeCommands == {"got-dom-content", "execute-js"}

\* The name of the response event of a command.
ResponseEvent(cmd) == cmd \o "-response"

\* 4.3 step 1: the deadline is command-specific, 5 to 10 time units.
DefaultTimeout == 5
BridgeTimeout(cmd) == IF cmd = "got-dom-content" THEN DefaultTimeout
                      ELSE 2 * DefaultTimeout

\* The clock of the bridge part moves in steps of Quantum time units.
Quantum == DefaultTimeout

NoRequest == [conn |-> "none", cmd |-> "none", timeout |-> 0]

\* The key of a pending entry: window label + command name (one window here).
EntryKey(r) == <<"main", ResponseEvent(req[r].cmd)>>

BridgeInit ==
  /\ waited = [r \in Requests |-> 0]
  /\ nreq = 0
  /\ req = [r \in Requests |-> NoRequest]
  /\ pending = {}
  /\ timer = [r \in Requests |-> "off"]
  /\ outcomes = [r \in Requests |-> <<>>]
  /\ handler = [r \in Requests |-> "none"]
  /\ respq = {}
  /\ dropped = {}
  /\ connected = [c \in Conns |-> TRUE]
  /\ cancelled = {}

\* 4.3 steps 1-2: register the entry, start the deadline timer, emit the event.
Dispatch(c, cmd) ==
  /\ nreq < MaxReq
  /\ connected[c]
  /\ LET r == nreq + 1 IN
       /\ nreq' = r
       /\ req' = [req EXCEPT ![r] = [conn |-> c, cmd |-> cmd,
                                       timeout |-> BridgeTimeout(cmd)]]
       /\ pending' = pending \cup {r}
       /\ timer' = [timer EXCEPT ![r] = "armed"]
       /\ handler' = [handler EXCEPT ![r] = "queued"]
  /\ UNCHANGED <<waited, outcomes, respq, dropped, connected, cancelled>>
  /\ UNCHANGED notBridgeVars

\* The webview delivers the event to its listener: the handler starts.
HandlerStart(r) ==
  /\ handler[r] = "queued"
  /\ handler' = [handler EXCEPT ![r] = "running"]
  /\ UNCHANGED <<waited, nreq, req, pending, timer, outcomes, respq, dropped,
                 connected, cancelled>>
  /\ UNCHANGED notBridgeVars

\* A handler that answers under the response event name of the other command.
ResponseOfOtherEvent(r) ==
  [event |-> ResponseEvent(CHOOSE c \in BridgeCommands : c # req[r].cmd),
   origin |-> r]

\* The response event a handler emits: the event name and the payload; no
\* per-call id. "origin" records which invocation produced it and is read by
\* no action.
ResponseOf(r) == [event |-> ResponseEvent(req[r].cmd), origin |-> r]

\* A handler that gives up once the host no longer waits for it.
HandlerFinishUnlessAbandoned(r) ==
  /\ handler[r] = "running"
  /\ r \in pending
  /\ handler' = [handler EXCEPT ![r] = "done"]
  /\ respq' = respq \cup {ResponseOf(r)}
  /\ UNCHANGED <<waited, nreq, req, pending, timer, outcomes, dropped,
                 connected, cancelled>>
  /\ UNCHANGED notBridgeVars

\* The handler runs to completion and emits its response event.
HandlerFinish(r) ==
  /\ handler[r] = "running"
  /\ handler' = [handler EXCEPT ![r] = "done"]
  /\ respq' = respq \cup {ResponseOf(r)}
  /\ UNCHANGED <<waited, nreq, req, pending, timer, outcomes, dropped,
                 connected, cancelled>>
  /\ UNCHANGED notBridgeVars

\* The pending entries a response event matches.
Matching(e) == {p \in pending : EntryKey(p) = <<"main", e.event>>}

\* 4.3 steps 4-5: the bridge receives a response event; it resolves a matching
\* entry and cancels its timer, or drops the event when no entry matches.
ResponseArrive(e) ==
  /\ e \in respq
  /\ respq' = respq \ {e}
  /\ IF Matching(e) = {}
       THEN /\ dropped' = dropped \cup {e}
            /\ UNCHANGED <<pending, timer, outcomes, waited>>
       ELSE \E p \in Matching(e) :
              /\ pending' = pending \ {p}
              /\ outcomes' = [outcomes EXCEPT
                   ![p] = Append(@, [kind |-> "response", from |-> e.origin,
                                   at |-> waited[p]])]
              /\ timer' = [timer EXCEPT ![p] = IF @ = "armed" THEN "off" ELSE @]
              /\ waited' = [waited EXCEPT
                   ![p] = IF timer[p] = "armed" THEN 0 ELSE @]
              /\ UNCHANGED dropped
  /\ UNCHANGED <<nreq, req, handler, connected, cancelled>>
  /\ UNCHANGED notBridgeVars

\* The deadline timer of r expires.
TimerFire(r) ==
  /\ timer[r] = "armed"
  /\ waited[r] >= req[r].timeout
  /\ timer' = [timer EXCEPT ![r] = "fired"]
  /\ UNCHANGED <<waited, nreq, req, pending, outcomes, handler, respq, dropped,
                 connected, cancelled>>
  /\ UNCHANGED notBridgeVars

\* An expiry that rejects without looking at the table.
TimeoutHandleUnguarded(r) ==
  /\ timer[r] = "fired"
  /\ timer' = [timer EXCEPT ![r] = "off"]
  /\ waited' = [waited EXCEPT ![r] = 0]
  /\ pending' = pending \ {r}
  /\ outcomes' = [outcomes EXCEPT
       ![r] = Append(@, [kind |-> "Timeout", from |-> 0, at |-> waited[r]])]
  /\ UNCHANGED <<nreq, req, handler, respq, dropped, connected, cancelled>>
  /\ UNCHANGED notBridgeVars

\* The expiry reaches the table: Timeout if the entry is still there.
TimeoutHandle(r) ==
  /\ timer[r] = "fired"
  /\ timer' = [timer EXCEPT ![r] = "off"]
  /\ waited' = [waited EXCEPT ![r] = 0]
  /\ IF r \in pending
       THEN /\ pending' = pending \ {r}
            /\ outcomes' = [outcomes EXCEPT
                 ![r] = Append(@, [kind |-> "Timeout", from |-> 0,
                                   at |-> waited[r]])]
       ELSE UNCHANGED <<pending, outcomes>>
  /\ UNCHANGED <<nreq, req, handler, respq, dropped, connected, cancelled>>
  /\ UNCHANGED notBridgeVars

\* A clock that moves on although a timer is due.
TickPastDeadline ==
  /\ \E r \in Requests : timer[r] = "armed"
  /\ waited' = [r \in Requests |->
                  IF timer[r] = "armed" THEN waited[r] + Quantum ELSE waited[r]]
  /\ UNCHANGED <<nreq, req, pending, timer, outcomes, handler, respq, dropped,
                 connected, cancelled>>
  /\ UNCHANGED notBridgeVars

\* Time passes; a timer that is due fires before the clock moves on.
Tick ==
  /\ \E r \in Requests : timer[r] = "armed"
  /\ \A r \in Requests :
       \/ timer[r] = "off"
       \/ timer[r] = "armed" /\ waited[r] < req[r].timeout
  /\ waited' = [r \in Requests |->
                  IF timer[r] = "armed" THEN waited[r] + Quantum ELSE waited[r]]
  /\ UNCHANGED <<nreq, req, pending, timer, outcomes, handler, respq, dropped,
                 connected, cancelled>>
  /\ UNCHANGED notBridgeVars

\* A teardown that cancels every pending request.
DisconnectCancelsAll(c) ==
  /\ connected[c]
  /\ connected' = [connected EXCEPT ![c] = FALSE]
  /\ pending' = {}
  /\ cancelled' = cancelled \cup pending
  /\ timer' = [r \in Requests |-> IF r \in pending THEN "off" ELSE timer[r]]
  /\ waited' = [r \in Requests |-> IF r \in pending THEN 0 ELSE waited[r]]
  /\ UNCHANGED <<nreq, req, outcomes, handler, respq, dropped>>
  /\ UNCHANGED notBridgeVars

\* A teardown that closes the connection and leaves its entries in the table.
DisconnectLeavesEntries(c) ==
  /\ connected[c]
  /\ connected' = [connected EXCEPT ![c] = FALSE]
  /\ UNCHANGED <<waited, nreq, req, pending, timer, outcomes, handler, respq,
                 dropped, cancelled>>
  /\ UNCHANGED notBridgeVars

\* 4.1: a connection breaks; its still-pending requests are cancelled.
Disconnect(c) ==
  /\ connected[c]
  /\ connected' = [connected EXCEPT ![c] = FALSE]
  /\ LET mine == {r \in pending : req[r].conn = c} IN
       /\ pending' = pending \ mine
       /\ cancelled' = cancelled \cup mine
       /\ timer' = [r \in Requests |-> IF r \in mine THEN "off" ELSE timer[r]]
       /\ waited' = [r \in Requests |-> IF r \in mine THEN 0 ELSE waited[r]]
  /\ UNCHANGED <<nreq, req, outcomes, handler, respq, dropped>>
  /\ UNCHANGED notBridgeVars

BridgeNext ==
  \/ \E c \in Conns, cmd \in BridgeCommands : Dispatch(c, cmd)
  \/ \E r \in Requests : HandlerStart(r)
  \/ \E r \in Requests : HandlerFinish(r)
  \/ \E e \in respq : ResponseArrive(e)
  \/ \E r \in Requests : TimerFire(r)
  \/ \E r \in Requests : TimeoutHandle(r)
  \/ Tick
  \/ \E c \in Conns : Disconnect(c)

\* The call r has settled: its caller has a response or a Timeout.
Settled(r) == outcomes[r] # <<>>

\* A call of a caller that serializes the calls of one command to one
\* window: it is issued once every earlier call of the command has settled,
\* by its response or by Timeout.
SerialDispatch(c, cmd) ==
  /\ \A o \in 1..nreq : req[o].cmd = cmd => Settled(o)
  /\ Dispatch(c, cmd)

\* The bridge under callers that serialize their calls.
SerialNext ==
  \/ \E c \in Conns, cmd \in BridgeCommands : SerialDispatch(c, cmd)
  \/ \E r \in Requests : HandlerStart(r)
  \/ \E r \in Requests : HandlerFinish(r)
  \/ \E e \in respq : ResponseArrive(e)
  \/ \E r \in Requests : TimerFire(r)
  \/ \E r \in Requests : TimeoutHandle(r)
  \/ Tick
  \/ \E c \in Conns : Disconnect(c)

(***************************************************************************)
(* Part 2: one in-webview handler invocation, step by step.                *)
(* Every handler has the shape                                             *)
(*   try { operation; await emit(<cmd>-response, payload) }                *)
(*   catch { await emit(<cmd>-response, failure).catch(log) }              *)
(* The event channel may reject an emit call (emit is an IPC invoke).      *)
(***************************************************************************)
\* Payloads, by their shape.
Payload(kind, success, error, body) ==
  [kind |-> kind, success |-> success, error |-> error, body |-> body]
NoPayload == Payload("none", "absent", "absent", "none")
\* document.documentElement.outerHTML, a string
DomHtml == Payload("string", "absent", "absent", "outerHTML")
\* ''
EmptyString == Payload("string", "absent", "absent", "empty")
\* {success: true, data: ...}
SuccessData == Payload("object", "true", "absent", "data")
\* {success: true}
SuccessOnly == Payload("object", "true", "absent", "none")
\* {success: false, error: <string>}
FailureError == Payload("object", "false", "string", "none")
\* {result: <string>, type: <typeof>}
JsResult == Payload("object", "absent", "absent", "result,type")
\* {result: null, type: 'error', error: <string>}
JsError == Payload("object", "absent", "string", "result:null,type:error")
\* e.data of the iframe's moss-rpc-result message
RpcResult == Payload("object", "absent", "absent", "iframe data")
\* {error: 'Timeout after 5s'}
RpcTimeoutPayload == Payload("object", "absent", "string", "none")

\* What the event payload and the document can make each operation do.
Inputs(cmd) ==
  CASE cmd = "got-dom-content" ->
         {"complete", "interactive", "loading", "no documentElement"}
    [] cmd = "get-local-storage" ->
         {"get", "get all", "set", "set without key", "set without value",
          "remove", "remove without key", "clear", "keys", "unsupported action"}
    [] cmd = "execute-js" ->
         {"expression", "statements", "code throws", "circular result"}
    [] cmd = "get-element-position" ->
         {"found", "found and clicked", "not found", "unsupported selector"}
    [] cmd = "send-text-to-element" ->
         {"input", "contentEditable", "other element", "not found",
          "unsupported selector"}
    [] cmd = "capture-screenshot" ->
         {"svg renders", "svg fails", "no 2d context", "tainted canvas"}
    [] cmd = "iframe-rpc" ->
         {"iframe", "no iframe", "no payload"}

\* A getDomContent that reads the document in every load state.
GetDomContentAnyState(readyState) == DomHtml

\* getDomContent(): the outerHTML of the document element when readyState
\* is 'complete' or 'interactive', and '' otherwise.
GetDomContent(readyState) ==
  IF readyState \in {"complete", "interactive"} THEN DomHtml ELSE EmptyString

\* The try block up to its emit call: where it goes and with which payload.
Goes(next, payload) == [next |-> next, payload |-> payload]
Operation(cmd, input) ==
  CASE cmd = "got-dom-content" ->
         IF input = "no documentElement" THEN Goes("catch", NoPayload)
         ELSE Goes("emit", GetDomContent(input))
    [] cmd = "get-local-storage" ->
         IF input \in {"get", "get all", "keys"} THEN Goes("emit", SuccessData)
         ELSE IF input \in {"set", "remove", "clear"} THEN Goes("emit", SuccessOnly)
         ELSE Goes("catch", NoPayload)
    [] cmd = "execute-js" ->
         IF input \in {"expression", "statements"} THEN Goes("emit", JsResult)
         ELSE Goes("catch", NoPayload)
    [] cmd = "get-element-position" ->
         IF input \in {"found", "found and clicked"} THEN Goes("emit", SuccessData)
         ELSE Goes("catch", NoPayload)
    [] cmd = "send-text-to-element" ->
         IF input \in {"input", "contentEditable", "other element"}
           THEN Goes("emit", SuccessData)
           ELSE Goes("catch", NoPayload)
    [] cmd = "capture-screenshot" ->
         IF input = "no 2d context" THEN Goes("catch", NoPayload)
         ELSE Goes("composite", NoPayload)
    [] cmd = "iframe-rpc" ->
         IF input = "no payload" THEN Goes("catch", NoPayload)
         ELSE IF input = "no iframe" THEN Goes("emit", FailureError)
         ELSE Goes("await_rpc", NoPayload)

\* A catch block that always answers {success: false, error}.
FailurePayloadUniform(cmd) == FailureError

\* The payload the catch block of each handler emits.
FailurePayload(cmd) ==
  CASE cmd = "got-dom-content" -> EmptyString
    [] cmd = "execute-js" -> JsError
    [] OTHER -> FailureError

HandlerInit ==
  /\ hcmd = "none"
  /\ hinput = "none"
  /\ hpc = "idle"
  /\ hpayload = NoPayload
  /\ hiframes = 0
  /\ hemitted = <<>>
  /\ hchan = "none"
  /\ hraised = FALSE
  /\ hescaped = FALSE

\* The webview delivers a bridged event to its listener.
Deliver(cmd, input, n) ==
  /\ hpc = "idle"
  /\ input \in Inputs(cmd)
  /\ n = 0 \/ (cmd = "capture-screenshot" /\ input # "no 2d context")
  /\ hcmd' = cmd
  /\ hinput' = input
  /\ hiframes' = n
  /\ hpc' = "op"
  /\ UNCHANGED <<hpayload, hemitted, hchan, hraised, hescaped>>
  /\ UNCHANGED notHandlerVars

\* The operation of the try block runs up to its first suspension.
RunOperation ==
  /\ hpc = "op"
  /\ LET o == Operation(hcmd, hinput) IN
       /\ hpc' = o.next
       /\ hpayload' = o.payload
       /\ hraised' = (o.next = "catch")
  /\ UNCHANGED <<hcmd, hinput, hiframes, hemitted, hchan, hescaped>>
  /\ UNCHANGED notHandlerVars

\* iframe-rpc: the iframe's matching moss-rpc-result message resolves the wait.
RpcReply ==
  /\ hpc = "await_rpc"
  /\ hpc' = "emit"
  /\ hpayload' = RpcResult
  /\ UNCHANGED <<hcmd, hinput, hiframes, hemitted, hchan, hraised, hescaped>>
  /\ UNCHANGED notHandlerVars

\* iframe-rpc: the iframe never replied; the 5 s timer resolves the wait.
RpcTimerFire ==
  /\ hpc = "await_rpc"
  /\ hpc' = "emit"
  /\ hpayload' = RpcTimeoutPayload
  /\ UNCHANGED <<hcmd, hinput, hiframes, hemitted, hchan, hraised, hescaped>>
  /\ UNCHANGED notHandlerVars

\* capture-screenshot: captureIframeContent for the next iframe resolves, by
\* the iframe's reply or by its 5 s deadline, and the loop moves on.
CompositeIframe(replied) ==
  /\ hpc = "composite"
  /\ hiframes > 0
  /\ hiframes' = hiframes - 1
  /\ UNCHANGED <<hcmd, hinput, hpc, hpayload, hemitted, hchan, hraised, hescaped>>
  /\ UNCHANGED notHandlerVars

\* capture-screenshot: the canvas is encoded; a tainted canvas throws.
CompositeDone ==
  /\ hpc = "composite"
  /\ hiframes = 0
  /\ IF hinput = "tainted canvas"
       THEN hpc' = "catch" /\ hraised' = TRUE /\ UNCHANGED hpayload
       ELSE hpc' = "emit" /\ hpayload' = SuccessData /\ UNCHANGED hraised
  /\ UNCHANGED <<hcmd, hinput, hiframes, hemitted, hchan, hescaped>>
  /\ UNCHANGED notHandlerVars

\* await emit(...) in the try block; a rejected call throws into the catch.
EmitTry(accepted) ==
  /\ hpc = "emit"
  /\ IF accepted
       THEN /\ hemitted' = Append(hemitted,
                 [event |-> ResponseEvent(hcmd), payload |-> hpayload])
            /\ hchan' = "accepted"
            /\ hpc' = "done"
            /\ UNCHANGED hraised
       ELSE /\ hchan' = "rejected"
            /\ hpc' = "catch"
            /\ hraised' = TRUE
            /\ UNCHANGED hemitted
  /\ UNCHANGED <<hcmd, hinput, hpayload, hiframes, hescaped>>
  /\ UNCHANGED notHandlerVars

\* A catch block that only logs.
EmitCatchSilent(accepted) ==
  /\ hpc = "catch"
  /\ hpc' = "done"
  /\ UNCHANGED <<hcmd, hinput, hpayload, hiframes, hemitted, hchan, hraised,
                 hescaped>>
  /\ UNCHANGED notHandlerVars

\* A catch block whose emit call has no .catch of its own.
EmitCatchUnguarded(accepted) ==
  /\ hpc = "catch"
  /\ hpc' = "done"
  /\ IF accepted
       THEN /\ hemitted' = Append(hemitted,
                 [event |-> ResponseEvent(hcmd), payload |-> FailurePayload(hcmd)])
            /\ hchan' = "accepted"
            /\ UNCHANGED hescaped
       ELSE /\ hchan' = "rejected"
            /\ hescaped' = TRUE
            /\ UNCHANGED hemitted
  /\ UNCHANGED <<hcmd, hinput, hpayload, hiframes, hraised>>
  /\ UNCHANGED notHandlerVars

\* await emit(..., failure).catch(log) in the catch block.
EmitCatch(accepted) ==
  /\ hpc = "catch"
  /\ hpc' = "done"
  /\ IF accepted
       THEN /\ hemitted' = Append(hemitted,
                 [event |-> ResponseEvent(hcmd), payload |-> FailurePayload(hcmd)])
            /\ hchan' = "accepted"
       ELSE /\ hchan' = "rejected"
            /\ UNCHANGED hemitted
  /\ UNCHANGED <<hcmd, hinput, hpayload, hiframes, hraised, hescaped>>
  /\ UNCHANGED notHandlerVars

\* The handler's promise settles; the listener waits for the next event.
Return ==
  /\ hpc = "done"
  /\ hcmd' = "none"
  /\ hinput' = "none"
  /\ hpc' = "idle"
  /\ hpayload' = NoPayload
  /\ hiframes' = 0
  /\ hemitted' = <<>>
  /\ hchan' = "none"
  /\ hraised' = FALSE
  /\ hescaped' = FALSE
  /\ UNCHANGED notHandlerVars

HandlerNext ==
  \/ \E cmd \in WebviewCommands, n \in 0..MaxIframes :
       \E input \in Inputs(cmd) : Deliver(cmd, input, n)
  \/ RunOperation
  \/ RpcReply
  \/ RpcTimerFire
  \/ \E replied \in BOOLEAN : CompositeIframe(replied)
  \/ CompositeDone
  \/ \E accepted \in BOOLEAN : EmitTry(accepted)
  \/ \E accepted \in BOOLEAN : EmitCatch(accepted)
  \/ Return


(***************************************************************************)
(* Part 3: the iframe-rpc path end to end. The host forwards a call and     *)
(* waits for the call's timeout; handleIframeRpcRequest posts               *)
(* moss-rpc-call into the iframe under a fresh id and races the matching    *)
(* moss-rpc-result against its own setTimeout; what it resolves to is       *)
(* emitted as iframe-rpc-response.                                          *)
(***************************************************************************)
RpcCalls == 1..MaxRpcCalls

\* setTimeout(..., 5000) of the handler, in seconds.
IframeWait == 5
\* "Defaults to 10000ms (10 seconds) if not specified", in seconds.
RpcDefaultTimeout == 10
\* The timeouts a caller supplies.
CallerTimeouts == {IframeWait, RpcDefaultTimeout + IframeWait}
\* The clock of this part moves in steps of RpcQuantum seconds.
RpcQuantum == IframeWait

\* The id the handler generates: rpc-<Date.now()>-<random>, fresh per call.
RpcId(c) == c

Nothing == [kind |-> "none", from |-> 0, at |-> 0]

\* What the response promise of the handler resolves to.
Unresolved == [kind |-> "none", id |-> 0]
\* e.data of the matching message: it carries the id the handler generated
RpcData(id) == [kind |-> "result", id |-> id]
\* {error: 'Timeout after 5s'}
RpcTimedOut == [kind |-> "timeout", id |-> 0]
\* {success: false, error: 'No iframe found'}
RpcNoIframe == [kind |-> "no iframe", id |-> 0]

RpcInit ==
  /\ rcalls = 0
  /\ rtmo = [c \in RpcCalls |-> 0]
  /\ rhost = [c \in RpcCalls |-> "none"]
  /\ rgot = [c \in RpcCalls |-> Nothing]
  /\ relapsed = [c \in RpcCalls |-> 0]
  /\ rpc = [c \in RpcCalls |-> "none"]
  /\ rresult = [c \in RpcCalls |-> Unresolved]
  /\ rtimer = [c \in RpcCalls |-> "off"]
  /\ rhwait = [c \in RpcCalls |-> 0]
  /\ rlisten = {}
  /\ rposted = {}
  /\ rmsgs = {}
  /\ rresp = {}

\* The timeout of a call: the caller's timeout_ms, or the default.
CallTimeout(supplied) == IF supplied = 0 THEN RpcDefaultTimeout ELSE supplied

\* The iframe_rpc tool forwards a call; the host registers its wait and
\* emits the iframe-rpc event.
RpcDispatch(supplied) ==
  /\ rcalls < MaxRpcCalls
  /\ LET c == rcalls + 1 IN
       /\ rcalls' = c
       /\ rtmo' = [rtmo EXCEPT ![c] = CallTimeout(supplied)]
       /\ rhost' = [rhost EXCEPT ![c] = "pending"]
       /\ rpc' = [rpc EXCEPT ![c] = "queued"]
  /\ UNCHANGED <<rgot, relapsed, rresult, rtimer, rhwait, rlisten, rposted,
                 rmsgs, rresp>>
  /\ UNCHANGED notRpcVars

\* How long the handler waits for the iframe: a fixed setTimeout.
HandlerWait(c) == IframeWait

\* handleIframeRpcRequest up to its await: without an iframe it answers
\* 'No iframe found'; otherwise it registers the listener, starts the timer
\* and posts the call.
RpcStart(c, hasIframe) ==
  /\ rpc[c] = "queued"
  /\ IF hasIframe
       THEN /\ rpc' = [rpc EXCEPT ![c] = "await"]
            /\ rlisten' = rlisten \cup {c}
            /\ rtimer' = [rtimer EXCEPT ![c] = "armed"]
            /\ rposted' = rposted \cup {RpcId(c)}
            /\ UNCHANGED rresult
       ELSE /\ rpc' = [rpc EXCEPT ![c] = "emit"]
            /\ rresult' = [rresult EXCEPT ![c] = RpcNoIframe]
            /\ UNCHANGED <<rlisten, rtimer, rposted>>
  /\ UNCHANGED <<rcalls, rtmo, rhost, rgot, relapsed, rhwait, rmsgs, rresp>>
  /\ UNCHANGED notRpcVars

\* The iframe answers a call it received with a moss-rpc-result of that id.
IframeAnswer(id) ==
  /\ id \in rposted
  /\ rposted' = rposted \ {id}
  /\ rmsgs' = rmsgs \cup {[type |-> "moss-rpc-result", id |-> id]}
  /\ UNCHANGED <<rcalls, rtmo, rhost, rgot, relapsed, rpc, rresult, rtimer,
                 rhwait, rlisten, rresp>>
  /\ UNCHANGED notRpcVars

\* The listener of c accepts a message: type and id must match.
ListenerMatches(c, m) == m.type = "moss-rpc-result" /\ m.id = RpcId(c)

\* The window gets a message; the listeners it matches remove themselves and
\* resolve their promise with e.data.
WindowMessage(m) ==
  /\ m \in rmsgs
  /\ rmsgs' = rmsgs \ {m}
  /\ LET hit == {c \in rlisten : ListenerMatches(c, m)} IN
       /\ rlisten' = rlisten \ hit
       /\ rresult' = [c \in RpcCalls |->
                        IF c \in hit /\ rresult[c] = Unresolved
                          THEN RpcData(m.id)
                          ELSE rresult[c]]
       /\ rpc' = [c \in RpcCalls |->
                    IF c \in hit /\ rpc[c] = "await" THEN "emit" ELSE rpc[c]]
  /\ UNCHANGED <<rcalls, rtmo, rhost, rgot, relapsed, rtimer, rhwait, rposted,
                 rresp>>
  /\ UNCHANGED notRpcVars

\* The setTimeout of the handler fires: it removes the listener and resolves
\* with {error: 'Timeout after 5s'} (a no-op on a promise already resolved).
HandlerTimer(c) ==
  /\ rtimer[c] = "armed"
  /\ rhwait[c] >= HandlerWait(c)
  /\ rtimer' = [rtimer EXCEPT ![c] = "off"]
  /\ rlisten' = rlisten \ {c}
  /\ IF rresult[c] = Unresolved
       THEN /\ rresult' = [rresult EXCEPT ![c] = RpcTimedOut]
            /\ rpc' = [rpc EXCEPT ![c] = "emit"]
       ELSE UNCHANGED <<rresult, rpc>>
  /\ UNCHANGED <<rcalls, rtmo, rhost, rgot, relapsed, rhwait, rposted, rmsgs,
                 rresp>>
  /\ UNCHANGED notRpcVars

\* await emit('iframe-rpc-response', response): the event carries what the
\* promise resolved to. "origin" records the emitting invocation and is read
\* by no action.
RpcEmit(c) ==
  /\ rpc[c] = "emit"
  /\ rpc' = [rpc EXCEPT ![c] = "done"]
  /\ rresp' = rresp \cup {[event |-> ResponseEvent("iframe-rpc"),
                           payload |-> rresult[c], origin |-> c]}
  /\ UNCHANGED <<rcalls, rtmo, rhost, rgot, relapsed, rresult, rtimer, rhwait,
                 rlisten, rposted, rmsgs>>
  /\ UNCHANGED notRpcVars

\* What a response event tells the caller: a result, or a timeout report.
Told(payload) ==
  IF payload.kind = "timeout" THEN "timeout report" ELSE payload.kind

\* The host receives an iframe-rpc-response: it resolves a pending
\* iframe-rpc wait of that window, or drops the event when there is none.
RpcHostArrive(e) ==
  /\ e \in rresp
  /\ rresp' = rresp \ {e}
  /\ LET waiting == {c \in RpcCalls : rhost[c] = "pending"} IN
       IF waiting = {}
         THEN UNCHANGED <<rhost, rgot>>
         ELSE \E p \in waiting :
                /\ rhost' = [rhost EXCEPT ![p] = "settled"]
                /\ rgot' = [rgot EXCEPT ![p] = [kind |-> Told(e.payload),
                                                from |-> e.origin,
                                                at |-> relapsed[p]]]
  /\ UNCHANGED <<rcalls, rtmo, relapsed, rpc, rresult, rtimer, rhwait, rlisten,
                 rposted, rmsgs>>
  /\ UNCHANGED notRpcVars

\* The wait of the host for call c reaches the timeout of the call.
RpcHostTimeout(c) ==
  /\ rhost[c] = "pending"
  /\ relapsed[c] >= rtmo[c]
  /\ rhost' = [rhost EXCEPT ![c] = "settled"]
  /\ rgot' = [rgot EXCEPT ![c] = [kind |-> "Timeout", from |-> 0,
                                  at |-> relapsed[c]]]
  /\ UNCHANGED <<rcalls, rtmo, relapsed, rpc, rresult, rtimer, rhwait, rlisten,
                 rposted, rmsgs, rresp>>
  /\ UNCHANGED notRpcVars

\* Time passes; timers that are due fire before the clock moves on.
RpcTick ==
  /\ \E c \in RpcCalls : rhost[c] = "pending" \/ rtimer[c] = "armed"
  /\ \A c \in RpcCalls :
       /\ rhost[c] = "pending" => relapsed[c] < rtmo[c]
       /\ rtimer[c] = "armed" => rhwait[c] < HandlerWait(c)
  /\ relapsed' = [c \in RpcCalls |->
                    IF rhost[c] = "pending" THEN relapsed[c] + RpcQuantum
                    ELSE relapsed[c]]
  /\ rhwait' = [c \in RpcCalls |->
                  IF rtimer[c] = "armed" THEN rhwait[c] + RpcQuantum
                  ELSE rhwait[c]]
  /\ UNCHANGED <<rcalls, rtmo, rhost, rgot, rpc, rresult, rtimer, rlisten,
                 rposted, rmsgs, rresp>>
  /\ UNCHANGED notRpcVars

RpcNext ==
  \/ \E supplied \in {0} \cup CallerTimeouts : RpcDispatch(supplied)
  \/ \E c \in RpcCalls, hasIframe \in BOOLEAN : RpcStart(c, hasIframe)
  \/ \E id \in RpcCalls : IframeAnswer(id)
  \/ \E m \in rmsgs : WindowMessage(m)
  \/ \E c \in RpcCalls : HandlerTimer(c)
  \/ \E c \in RpcCalls : RpcEmit(c)
  \/ \E e \in rresp : RpcHostArrive(e)
  \/ \E c \in RpcCalls : RpcHostTimeout(c)
  \/ RpcTick

(***************************************************************************)
(* Part 4: the Transport Listener and the Command Dispatcher (spec 3, 4.1,  *)
(* 4.2, 7). A request envelope is {id, command, params}; the dispatcher     *)
(* answers an unrouteable one itself and forwards a webview-delegated one.  *)
(***************************************************************************)
\* The windows a request can name; a request without a label means "main".
Labels == {"main", "settings"}
NoLabel == "omitted"
DefaultLabel == "main"
\* Commands: webview-delegated, native, and a name the dispatcher does not know.
DelegatedCommands == {"get_dom"}
NativeCommands == {"manage_window"}
KnownCommands == DelegatedCommands \cup NativeCommands
CommandNames == KnownCommands \cup {"no_such_command"}
\* Ids are assigned by the caller.
RequestIds == 1..2

NoEnvelope == [conn |-> "none", id |-> 0, command |-> "none", label |-> NoLabel]

DispatchInit ==
  /\ dlistening = TRUE
  /\ dopen = [c \in Conns |-> TRUE]
  /\ dwindows = {DefaultLabel}
  /\ dcount = 0
  /\ dlast = NoEnvelope
  /\ dinflight = {}
  /\ dout = {}

\* The window a request targets.
Target(q) == IF q.label = NoLabel THEN DefaultLabel ELSE q.label

\* The envelope that answers request q.
Envelope(q, success, body) ==
  [conn |-> q.conn, id |-> q.id, success |-> success, body |-> body]

\* Why the dispatcher cannot route q, or "routeable".
Verdict(q, windows) ==
  IF q.command \notin KnownCommands THEN "UnknownCommand"
  ELSE IF q.command \in DelegatedCommands /\ Target(q) \notin windows
    THEN "WindowNotFound"
  ELSE "routeable"

\* A dispatcher that drops the connection of an unrouteable request.
ReceiveOrHangUp(c, id, command, label) ==
  /\ dlistening
  /\ dopen[c]
  /\ dcount < MaxDispatch
  /\ \A f \in dinflight : ~(f.conn = c /\ f.id = id)
  /\ LET q == [conn |-> c, id |-> id, command |-> command, label |-> label] IN
       /\ dcount' = dcount + 1
       /\ dlast' = q
       /\ IF Verdict(q, dwindows) # "routeable"
            THEN /\ dopen' = [dopen EXCEPT ![c] = FALSE]
                 /\ dinflight' = {f \in dinflight : f.conn # c}
                 /\ UNCHANGED dout
            ELSE /\ UNCHANGED dopen
                 /\ IF q.command \in NativeCommands
                      THEN /\ dout' = dout \cup {Envelope(q, TRUE, "done")}
                           /\ UNCHANGED dinflight
                      ELSE /\ dinflight' = dinflight \cup {q}
                           /\ UNCHANGED dout
  /\ UNCHANGED <<dlistening, dwindows>>
  /\ UNCHANGED notDispatchVars

\* 4.1, 4.2: the listener frames a request of connection c and the dispatcher
\* classifies it: an error envelope for an unrouteable one, the host-side
\* operation for a native one, the bridge for a webview-delegated one.
Receive(c, id, command, label) ==
  /\ dlistening
  /\ dopen[c]
  /\ dcount < MaxDispatch
  /\ \A f \in dinflight : ~(f.conn = c /\ f.id = id)
  /\ LET q == [conn |-> c, id |-> id, command |-> command, label |-> label] IN
       /\ dcount' = dcount + 1
       /\ dlast' = q
       /\ IF Verdict(q, dwindows) # "routeable"
            THEN /\ dout' = dout \cup {Envelope(q, FALSE, Verdict(q, dwindows))}
                 /\ UNCHANGED dinflight
            ELSE IF q.command \in NativeCommands
            THEN /\ dout' = dout \cup {Envelope(q, TRUE, "done")}
                 /\ UNCHANGED dinflight
            ELSE /\ dinflight' = dinflight \cup {q}
                 /\ UNCHANGED dout
  /\ UNCHANGED <<dlistening, dopen, dwindows>>
  /\ UNCHANGED notDispatchVars

\* The bridge settles a forwarded request: its envelope goes to its connection.
Settle(q, success) ==
  /\ q \in dinflight
  /\ dinflight' = dinflight \ {q}
  /\ dout' = dout \cup {Envelope(q, success, IF success THEN "data" ELSE "Timeout")}
  /\ UNCHANGED <<dlistening, dopen, dwindows, dcount, dlast>>
  /\ UNCHANGED notDispatchVars

\* The application opens or closes a window.
WindowOpen(w) ==
  /\ w \notin dwindows
  /\ dwindows' = dwindows \cup {w}
  /\ UNCHANGED <<dlistening, dopen, dcount, dlast, dinflight, dout>>
  /\ UNCHANGED notDispatchVars

WindowClose(w) ==
  /\ w \in dwindows
  /\ dwindows' = dwindows \ {w}
  /\ UNCHANGED <<dlistening, dopen, dcount, dlast, dinflight, dout>>
  /\ UNCHANGED notDispatchVars

\* 4.1: a connection breaks; its in-flight requests are discarded.
ConnectionBreak(c) ==
  /\ dopen[c]
  /\ dopen' = [dopen EXCEPT ![c] = FALSE]
  /\ dinflight' = {f \in dinflight : f.conn # c}
  /\ UNCHANGED <<dlistening, dwindows, dcount, dlast, dout>>
  /\ UNCHANGED notDispatchVars

DispatchNext ==
  \/ \E c \in Conns, id \in RequestIds, command \in CommandNames,
        label \in Labels \cup {NoLabel} : Receive(c, id, command, label)
  \/ \E q \in dinflight, success \in BOOLEAN : Settle(q, success)
  \/ \E w \in Labels : WindowOpen(w)
  \/ \E w \in Labels : WindowClose(w)
  \/ \E c \in Conns : ConnectionBreak(c)

(***************************************************************************)
(* Part 5: handleSendTextToElementRequest on an <input> or <textarea>:      *)
(* simulateReactInputTyping, then the success response. A synchronous run   *)
(* of an invocation keeps the JS thread until its next await of a timer;    *)
(* the continuation after a timer starts when the thread is free.           *)
(***************************************************************************)
Typists == 1..2
\* The characters of a text: a letter, a line feed, a carriage return.
Chars == {"a", "LF", "CR"}
RECURSIVE TextsOfLength(_)
TextsOfLength(n) ==
  IF n = 0 THEN {<<>>}
  ELSE {Append(t, c) : t \in TextsOfLength(n - 1), c \in Chars}
Texts == UNION {TextsOfLength(n) : n \in 0..MaxText}
\* What the second invocation types meanwhile.
OtherTexts == {<<"b">>}
TextsOf(h) == IF h = 1 THEN Texts ELSE OtherTexts
\* delayMs: 0, or the default of the payload destructuring.
DefaultDelayMs == 20
Delays == {0, DefaultDelayMs}

\* The value an <input> keeps: the value sanitization of a text field strips
\* line breaks.
RECURSIVE StripNewlines(_)
StripNewlines(t) ==
  IF t = <<>> THEN <<>>
  ELSE IF Head(t) \in {"LF", "CR"} THEN StripNewlines(Tail(t))
  ELSE <<Head(t)>> \o StripNewlines(Tail(t))

\* The value a <textarea> hands back: CRLF and CR read as LF.
RECURSIVE NormalizeNewlines(_)
NormalizeNewlines(t) ==
  IF t = <<>> THEN <<>>
  ELSE IF Head(t) = "CR"
    THEN IF Len(t) > 1 /\ t[2] = "LF"
           THEN <<"LF">> \o NormalizeNewlines(Tail(Tail(t)))
           ELSE <<"LF">> \o NormalizeNewlines(Tail(t))
  ELSE <<Head(t)>> \o NormalizeNewlines(Tail(t))

\* element.value = t, as element.value reads afterwards.
SetValue(kind, t) ==
  IF kind = "input" THEN StripNewlines(t) ELSE NormalizeNewlines(t)

NoResponse == [success |-> FALSE, text |-> <<>>, value |-> <<>>]

\* What the element holds before any injection.
PriorValues == {<<>>, <<"a">>}

TypingInit ==
  /\ ekind = "none"
  /\ evalue = <<>>
  /\ tpc = [h \in Typists |-> "none"]
  /\ ttext = [h \in Typists |-> <<>>]
  /\ tdelay = [h \in Typists |-> 0]
  /\ ti = [h \in Typists |-> 0]
  /\ tthread = 0
  /\ tlog = <<>>
  /\ tresp = [h \in Typists |-> NoResponse]

\* The document holds the target: an <input> or a <textarea> with some value.
TargetElement(kind, value) ==
  /\ ekind = "none"
  /\ ekind' = kind
  /\ evalue' = SetValue(kind, value)
  /\ UNCHANGED <<tpc, ttext, tdelay, ti, tthread, tlog, tresp>>
  /\ UNCHANGED notTypingVars

\* The event of h is delivered: the handler finds the element, focuses it
\* and simulateReactInputTyping awaits its first 50 ms.
TypingStart(h, text, delay) ==
  /\ ekind # "none"
  /\ tpc[h] = "none"
  /\ tthread = 0
  /\ tpc' = [tpc EXCEPT ![h] = "afterFocus"]
  /\ ttext' = [ttext EXCEPT ![h] = text]
  /\ tdelay' = [tdelay EXCEPT ![h] = delay]
  /\ UNCHANGED <<ekind, evalue, ti, tthread, tlog, tresp>>
  /\ UNCHANGED notTypingVars

\* element.value = '' with its input and change events, then 50 ms.
ClearValue(h) ==
  /\ tpc[h] = "afterFocus"
  /\ tthread = 0
  /\ evalue' = SetValue(ekind, <<>>)
  /\ tlog' = Append(tlog, h)
  /\ tpc' = [tpc EXCEPT ![h] = "afterClear"]
  /\ UNCHANGED <<ekind, ttext, tdelay, ti, tthread, tresp>>
  /\ UNCHANGED notTypingVars

\* One turn of the loop: keydown, element.value = text.substring(0, i + 1),
\* input, keyup; it awaits delayMs unless delayMs is 0 or this was the last
\* character, and then goes on in the same run.
TypeChar(h) ==
  /\ tpc[h] \in {"afterClear", "typing"}
  /\ tthread \in {0, h}
  /\ ti[h] < Len(ttext[h])
  /\ evalue' = SetValue(ekind, SubSeq(ttext[h], 1, ti[h] + 1))
  /\ tlog' = Append(tlog, h)
  /\ ti' = [ti EXCEPT ![h] = @ + 1]
  /\ tpc' = [tpc EXCEPT ![h] = "typing"]
  /\ tthread' = IF tdelay[h] > 0 /\ ti[h] < Len(ttext[h]) - 1 THEN 0 ELSE h
  /\ UNCHANGED <<ekind, ttext, tdelay, tresp>>
  /\ UNCHANGED notTypingVars

\* After the loop: the change event, then 50 ms.
ChangeEvent(h) ==
  /\ tpc[h] \in {"afterClear", "typing"}
  /\ tthread \in {0, h}
  /\ ti[h] = Len(ttext[h])
  /\ tpc' = [tpc EXCEPT ![h] = "afterChange"]
  /\ tthread' = 0
  /\ UNCHANGED <<ekind, evalue, ttext, tdelay, ti, tlog, tresp>>
  /\ UNCHANGED notTypingVars

\* A typing simulation without the final value check.
FinalCheckOmitted(h) ==
  /\ tpc[h] = "afterChange"
  /\ tthread = 0
  /\ tpc' = [tpc EXCEPT ![h] = "checked"]
  /\ tthread' = h
  /\ UNCHANGED <<ekind, evalue, ttext, tdelay, ti, tlog, tresp>>
  /\ UNCHANGED notTypingVars

\* if (element.value !== text) { element.value = text; input; change }
FinalCheck(h) ==
  /\ tpc[h] = "afterChange"
  /\ tthread = 0
  /\ IF evalue # ttext[h]
       THEN /\ evalue' = SetValue(ekind, ttext[h])
            /\ tlog' = Append(tlog, h)
       ELSE UNCHANGED <<evalue, tlog>>
  /\ tpc' = [tpc EXCEPT ![h] = "checked"]
  /\ tthread' = h
  /\ UNCHANGED <<ekind, ttext, tdelay, ti, tresp>>
  /\ UNCHANGED notTypingVars

\* simulateReactInputTyping returned: emit('send-text-to-element-response',
\* {success: true, data: {element: {..., text}}}) in the same run.
EmitSuccess(h) ==
  /\ tpc[h] = "checked"
  /\ tthread = h
  /\ tresp' = [tresp EXCEPT ![h] = [success |-> TRUE, text |-> ttext[h],
                                      value |-> evalue]]
  /\ tpc' = [tpc EXCEPT ![h] = "done"]
  /\ tthread' = 0
  /\ UNCHANGED <<ekind, evalue, ttext, tdelay, ti, tlog>>
  /\ UNCHANGED notTypingVars

TypingNext ==
  \/ \E kind \in {"input", "textarea"}, value \in PriorValues :
       TargetElement(kind, value)
  \/ \E h \in Typists :
       /\ tpc[h] = "none"
       /\ \E delay \in Delays, text \in TextsOf(h) : TypingStart(h, text, delay)
  \/ \E h \in Typists : ClearValue(h)
  \/ \E h \in Typists : TypeChar(h)
  \/ \E h \in Typists : ChangeEvent(h)
  \/ \E h \in Typists : FinalCheck(h)
  \/ \E h \in Typists : EmitSuccess(h)

(***************************************************************************)
(* Part 6: element lookup, the switch on selectorType at the head of        *)
(* handleGetElementPositionRequest and handleSendTextToElementRequest, and  *)
(* findElementByText. A document is the sequence of its elements in         *)
(* document order; the first is the root and the others are its             *)
(* descendants, so the text content of the root is the text of all of them. *)
(* A text is a sequence of characters.                                      *)
(***************************************************************************)
Null == 0
\* getAttribute of an attribute the element does not have
NoAttr == <<"null">>

Element(tag, id, classes, text, placeholder, title, aria) ==
  [tag |-> tag, id |-> id, classes |-> classes, text |-> text,
   placeholder |-> placeholder, title |-> title, aria |-> aria]

\* The elements documents are made of.
Palette ==
  { Element("div", "", {}, <<>>, <<>>, NoAttr, NoAttr),
    Element("div", "x", {"k"}, <<"a">>, <<>>, NoAttr, NoAttr),
    Element("p", "y", {"k", "m"}, <<" ", "a">>, <<>>, NoAttr, NoAttr),
    Element("input", "", {"m"}, <<>>, <<"a", "b">>, NoAttr, NoAttr),
    Element("div", "", {}, <<>>, <<>>, <<"a", "b">>, NoAttr),
    Element("p", "", {}, <<"b">>, <<>>, NoAttr, <<"b", "a">>) }

RECURSIVE DocsOfLength(_)
DocsOfLength(n) ==
  IF n = 0 THEN {<<>>}
  ELSE {Append(d, e) : d \in DocsOfLength(n - 1), e \in Palette}

\* Ids are unique in a document.
UniqueIds(d) ==
  \A i, j \in 1..Len(d) : (i # j /\ d[i].id # "") => d[i].id # d[j].id

Documents ==
  {d \in UNION {DocsOfLength(n) : n \in 1..MaxElems} : UniqueIds(d)}

IdValues == {"x", "y", "z", ""}
ClassValues == {"k", "m", "n", ""}
TagValues == {"div", "DIV", "p", "input", "table", "*"}
TextValues == {<<>>, <<"a">>, <<"b">>, <<" ">>, <<"a", "b">>, <<" ", "a">>,
               <<"b", "a">>, <<"a", " ">>}
SelectorTypes == {"id", "class", "tag", "text", "xpath"}
LookupCommands == {"get-element-position", "send-text-to-element"}

\* s.trim()
RECURSIVE TrimStart(_)
TrimStart(s) ==
  IF s # <<>> /\ Head(s) = " " THEN TrimStart(Tail(s)) ELSE s
RECURSIVE TrimEnd(_)
TrimEnd(s) ==
  IF s # <<>> /\ s[Len(s)] = " " THEN TrimEnd(SubSeq(s, 1, Len(s) - 1)) ELSE s
Trim(s) == TrimEnd(TrimStart(s))

\* s.includes(q)
Includes(s, q) ==
  \E i \in 0..Len(s) :
    i + Len(q) <= Len(s) /\ SubSeq(s, i + 1, i + Len(q)) = q

\* A string in a condition: the empty string is falsy.
Truthy(s) == s # <<>>

\* element.textContent
RECURSIVE TextFrom(_, _)
TextFrom(d, i) ==
  IF i > Len(d) THEN <<>> ELSE d[i].text \o TextFrom(d, i + 1)
TextContent(d, i) == IF i = 1 THEN TextFrom(d, 1) ELSE d[i].text

\* element instanceof HTMLInputElement || element instanceof HTMLTextAreaElement
IsInput(e) == e.tag \in {"input", "textarea"}

\* The first element of a set of elements, in document order, or null.
FirstOf(matches) ==
  IF matches = {} THEN Null
  ELSE CHOOSE i \in matches : \A j \in matches : i <= j

\* document.getElementById
GetElementById(d, v) ==
  FirstOf({i \in 1..Len(d) : v # "" /\ d[i].id = v})

\* document.getElementsByClassName
GetElementsByClassName(d, v) == {i \in 1..Len(d) : v \in d[i].classes}

\* The tag names of an HTML document match without regard to case.
LowerCase(v) == IF v = "DIV" THEN "div" ELSE v
\* document.getElementsByTagName
GetElementsByTagName(d, v) ==
  {i \in 1..Len(d) : v = "*" \/ d[i].tag = LowerCase(v)}

\* The first loop of findElementByText: exact matches.
ExactHit(d, i, q) ==
  \/ Truthy(TextContent(d, i)) /\ Trim(TextContent(d, i)) = q
  \/ IsInput(d[i]) /\ d[i].placeholder = q
  \/ d[i].title = q
  \/ d[i].aria = q

\* The second loop of findElementByText: partial matches.
PartialHit(d, i, q) ==
  \/ Truthy(TextContent(d, i)) /\ Includes(Trim(TextContent(d, i)), q)
  \/ IsInput(d[i]) /\ Truthy(d[i].placeholder) /\ Includes(d[i].placeholder, q)
  \/ d[i].title # NoAttr /\ Truthy(d[i].title) /\ Includes(d[i].title, q)
  \/ d[i].aria # NoAttr /\ Truthy(d[i].aria) /\ Includes(d[i].aria, q)

PassOne(d, q) == FirstOf({i \in 1..Len(d) : ExactHit(d, i, q)})
PassTwo(d, q) == FirstOf({i \in 1..Len(d) : PartialHit(d, i, q)})

FindElementByText(d, q) ==
  IF PassOne(d, q) # Null THEN PassOne(d, q) ELSE PassTwo(d, q)

\* An entry of debugInfo: the template, the selector value and the count it
\* is filled with.
Debug(msg, v, n) == [msg |-> msg, value |-> v, n |-> n]

\* The entries get-element-position adds when the text is not found.
TextDiagnostics(d, q) ==
  LET containing == {i \in 1..Len(d) : Truthy(TextContent(d, i))
                                       /\ Includes(TextContent(d, i), q)}
      similar == {i \in 1..Len(d) : IsInput(d[i]) /\ Truthy(d[i].placeholder)
                                    /\ Includes(d[i].placeholder, q)}
  IN  (IF containing = {} THEN <<>>
       ELSE <<Debug("Found n elements containing part of the text.", q,
                    Cardinality(containing)),
              Debug("First element with partial match", q,
                    FirstOf(containing))>>)
      \o
      (IF similar = {} THEN <<>>
       ELSE <<Debug("Found n input elements with similar placeholders.", q,
                    Cardinality(similar)),
              Debug("First input with similar placeholder", q,
                    FirstOf(similar))>>)

\* A lookup that takes the last of several matches.
LastOf(matches) ==
  IF matches = {} THEN Null
  ELSE CHOOSE i \in matches : \A j \in matches : i >= j

\* The element the class and tag cases take: elems.length > 0 ? elems[0] : null
TakeFirst(matches) == FirstOf(matches)

\* The class and tag cases: the element and the debugInfo entry.
FirstOfSeveral(kind, matches, v) ==
  [element |-> TakeFirst(matches),
   debug |-> IF matches = {}
               THEN <<Debug("No elements found with " \o kind
                            \o " (total matching: 0)", v, 0)>>
             ELSE IF Cardinality(matches) > 1
               THEN <<Debug("Found n elements with " \o kind
                            \o ", using the first one", v,
                            Cardinality(matches))>>
             ELSE <<>>]

\* A lookup by id that settles for the first element carrying any id.
SelectByAnyId(d, v) ==
  LET e == FirstOf({i \in 1..Len(d) : d[i].id # ""}) IN
    [element |-> e,
     debug |-> IF e = Null THEN <<Debug("No element found with id", v, 0)>>
               ELSE <<>>]

\* case 'id'
SelectById(d, v) ==
  LET e == GetElementById(d, v) IN
    [element |-> e,
     debug |-> IF e = Null THEN <<Debug("No element found with id", v, 0)>>
               ELSE <<>>]

\* case 'text'
SelectByText(cmd, d, q) ==
  LET e == FindElementByText(d, q) IN
    [element |-> e,
     debug |-> IF e # Null THEN <<>>
               ELSE <<Debug("No element found with text", q, 0)>>
                    \o (IF cmd = "get-element-position"
                          THEN TextDiagnostics(d, q) ELSE <<>>)]

NoLookupResponse == [success |-> FALSE, kind |-> "none", element |-> Null,
                     debug |-> <<>>]

LookupInit ==
  /\ ldoc = <<>>
  /\ lcmd = "none"
  /\ ltype = "none"
  /\ lvalue = ""
  /\ lpc = "idle"
  /\ lelement = Null
  /\ ldebug = <<>>
  /\ lresp = NoLookupResponse

\* The values a selector of each type is tried with.
SelectorValues(type) ==
  CASE type = "class" -> ClassValues
    [] type = "tag" -> TagValues
    [] type = "text" -> TextValues
    [] OTHER -> IdValues

\* The event is delivered to the handler: const {selectorType, selectorValue}
\* = event.payload, with the document as it is then.
LookupDeliver(d, cmd, type, v) ==
  /\ lpc = "idle"
  /\ v \in SelectorValues(type)
  /\ ldoc' = d
  /\ lcmd' = cmd
  /\ ltype' = type
  /\ lvalue' = v
  /\ lpc' = "switch"
  /\ UNCHANGED <<lelement, ldebug, lresp>>
  /\ UNCHANGED notLookupVars

\* switch (selectorType), for the four selector kinds.
SelectElement ==
  /\ lpc = "switch"
  /\ ltype \in {"id", "class", "tag", "text"}
  /\ LET r == CASE ltype = "id" -> SelectById(ldoc, lvalue)
                [] ltype = "class" ->
                     FirstOfSeveral("class", GetElementsByClassName(ldoc, lvalue),
                                    lvalue)
                [] ltype = "tag" ->
                     FirstOfSeveral("tag", GetElementsByTagName(ldoc, lvalue),
                                    lvalue)
                [] ltype = "text" -> SelectByText(lcmd, ldoc, lvalue)
     IN /\ lelement' = r.element
        /\ ldebug' = r.debug
        /\ lpc' = IF r.element = Null THEN "throw" ELSE "found"
  /\ UNCHANGED <<ldoc, lcmd, ltype, lvalue, lresp>>
  /\ UNCHANGED notLookupVars

\* default: throw new Error(`Unsupported selector type: ...`); the catch
\* block answers.
UnsupportedSelector ==
  /\ lpc = "switch"
  /\ ltype \notin {"id", "class", "tag", "text"}
  /\ lresp' = [success |-> FALSE, kind |-> "Unsupported selector type",
               element |-> Null, debug |-> <<>>]
  /\ lpc' = "done"
  /\ UNCHANGED <<ldoc, lcmd, ltype, lvalue, lelement, ldebug>>
  /\ UNCHANGED notLookupVars

\* if (!element) throw new Error(`Element with <type>="<value>" not found.
\* <debugInfo>`); the catch block answers {success: false, error}.
NotFound ==
  /\ lpc = "throw"
  /\ lresp' = [success |-> FALSE, kind |-> "Element not found",
               element |-> Null,
               debug |-> <<Debug("Element with " \o ltype \o " not found.",
                                 lvalue, 0)>> \o ldebug]
  /\ lpc' = "done"
  /\ UNCHANGED <<ldoc, lcmd, ltype, lvalue, lelement, ldebug>>
  /\ UNCHANGED notLookupVars

\* The handler goes on with the element and answers {success: true, data};
\* debugInfo is not part of the data.
Proceed ==
  /\ lpc = "found"
  /\ lresp' = [success |-> TRUE, kind |-> "data", element |-> lelement,
               debug |-> <<>>]
  /\ lpc' = "done"
  /\ UNCHANGED <<ldoc, lcmd, ltype, lvalue, lelement, ldebug>>
  /\ UNCHANGED notLookupVars

LookupNext ==
  \/ /\ lpc = "idle"
     /\ \E d \in Documents, cmd \in LookupCommands, type \in SelectorTypes :
          \E v \in SelectorValues(type) : LookupDeliver(d, cmd, type, v)
  \/ SelectElement
  \/ UnsupportedSelector
  \/ NotFound
  \/ Proceed
(***************************************************************************)
(* Part 7: handleCaptureScreenshotRequest: capturePageAsImage with          *)
(* renderDomToCanvas, renderSimplifiedSnapshot, compositeIframeContent and  *)
(* captureIframeContent. Time is counted while the handler waits for an     *)
(* iframe; the base rendering takes no time here.                           *)
(***************************************************************************)
\* setTimeout(..., 5000) of captureIframeContent, in seconds.
CaptureDeadline == 5

\* How renderDomToCanvas ends: the image loads and is drawn, on an engine
\* that keeps the canvas origin-clean or on one that marks it tainted for
\* the foreignObject; img.onerror; or drawImage throws.
SvgOutcomes == {"renders", "renders tainted", "load error", "draw error"}

\* The outcomes with which renderDomToCanvas resolves.
SvgRendered == {"renders", "renders tainted"}

\* The iframes of a document, by what compositeIframeContent meets:
\* a zero-size rect, no contentWindow, or an iframe that answers the
\* moss-capture-preview request with
\*   "image"          {id, success: true, data: <JPEG data URL>}
\*   "no data"        {id, success: true} without data
\*   "failure"        {id, success: false, error}
\*   "other id"       a moss-capture-preview-result with another id
\*   "broken image"   success with data that does not decode as an image
\*   "foreign image"  success with the URL of an image of another origin
\*   "silent"         nothing
FrameKinds == {"no size", "no window", "image", "no data", "failure",
               "other id", "broken image", "foreign image", "silent"}

RECURSIVE FramesOfLength(_)
FramesOfLength(n) ==
  IF n = 0 THEN {<<>>}
  ELSE {Append(f, k) : f \in FramesOfLength(n - 1), k \in FrameKinds}
FrameLists == UNION {FramesOfLength(n) : n \in 0..MaxIframes}

\* captureId: capture-<Date.now()>-<random>, fresh for every iframe.
CaptureId(i) == i

\* The message an iframe of the given kind posts back for request id.
ReplyOf(kind, id) ==
  CASE kind = "image" -> [id |-> id, success |-> TRUE, data |-> "jpeg data url"]
    [] kind = "no data" -> [id |-> id, success |-> TRUE, data |-> "none"]
    [] kind = "failure" -> [id |-> id, success |-> FALSE, data |-> "none"]
    [] kind = "other id" -> [id |-> 0, success |-> TRUE, data |-> "jpeg data url"]
    [] kind = "broken image" -> [id |-> id, success |-> TRUE, data |-> "not an image"]
    [] kind = "foreign image" -> [id |-> id, success |-> TRUE, data |-> "foreign url"]

NoCaptureResponse == [success |-> FALSE, body |-> "none"]

CaptureInit ==
  /\ cpc = "idle"
  /\ csvg = "none"
  /\ cctx = TRUE
  /\ cimgs = FALSE
  /\ cframes = <<>>
  /\ cstages = <<>>
  /\ cnext = 0
  /\ cwait = "none"
  /\ cclock = 0
  /\ ctime = 0
  /\ cposted = 0
  /\ cmsgs = {}
  /\ cdrawn = {}
  /\ ctainted = {}
  /\ cresp = NoCaptureResponse

\* The capture-screenshot event is delivered, with the document as it is.
CaptureDeliver(frames, svg, context, imgs) ==
  /\ cpc = "idle"
  /\ cframes' = frames
  /\ csvg' = svg
  /\ cctx' = context
  /\ cimgs' = imgs
  /\ cpc' = "start"
  /\ UNCHANGED <<cstages, cnext, cwait, cclock, ctime, cposted, cmsgs, cdrawn,
                 ctainted, cresp>>
  /\ UNCHANGED notCaptureVars

\* capturePageAsImage up to the strategies: canvas, 2d context, background.
CaptureStart ==
  /\ cpc = "start"
  /\ cpc' = IF cctx THEN "svg" ELSE "catch"
  /\ UNCHANGED <<csvg, cctx, cimgs, cframes, cstages, cnext, cwait, cclock, ctime,
                 cposted, cmsgs, cdrawn, ctainted, cresp>>
  /\ UNCHANGED notCaptureVars

\* A capture that goes on to the iframes when the SVG strategy fails.
RenderDomToCanvasOnly ==
  /\ cpc = "svg"
  /\ cstages' = Append(cstages, "svg")
  /\ cpc' = "composite"
  /\ ctainted' = IF csvg = "renders tainted" THEN {"svg"} ELSE ctainted
  /\ UNCHANGED <<csvg, cctx, cimgs, cframes, cnext, cwait, cclock, ctime,
                 cposted, cmsgs, cdrawn, cresp>>
  /\ UNCHANGED notCaptureVars

\* try { await renderDomToCanvas(...) } catch (svgError) { fallback }
RenderDomToCanvas ==
  /\ cpc = "svg"
  /\ cstages' = Append(cstages, "svg")
  /\ cpc' = IF csvg \in SvgRendered THEN "composite" ELSE "fallback"
  /\ ctainted' = IF csvg = "renders tainted" THEN {"svg"} ELSE ctainted
  /\ UNCHANGED <<csvg, cctx, cimgs, cframes, cnext, cwait, cclock, ctime,
                 cposted, cmsgs, cdrawn, cresp>>
  /\ UNCHANGED notCaptureVars

\* await renderSimplifiedSnapshot(...): every drawImage is in a try block;
\* drawing a loaded <img> of another origin does not throw, it taints.
RenderSimplifiedSnapshot ==
  /\ cpc = "fallback"
  /\ cstages' = Append(cstages, "fallback")
  /\ cpc' = "composite"
  /\ ctainted' = IF cimgs THEN ctainted \cup {"img"} ELSE ctainted
  /\ UNCHANGED <<csvg, cctx, cimgs, cframes, cnext, cwait, cclock, ctime,
                 cposted, cmsgs, cdrawn, cresp>>
  /\ UNCHANGED notCaptureVars

\* await compositeIframeContent(...): querySelectorAll('iframe'), loop entry.
CompositeBegin ==
  /\ cpc = "composite"
  /\ cstages' = Append(cstages, "composite")
  /\ cnext' = 1
  /\ cpc' = "loop"
  /\ UNCHANGED <<csvg, cctx, cimgs, cframes, cwait, cclock, ctime, cposted, cmsgs,
                 cdrawn, ctainted, cresp>>
  /\ UNCHANGED notCaptureVars

\* An iframe without size is passed over; for one without contentWindow
\* captureIframeContent returns null.
FrameSkip ==
  /\ cpc = "loop"
  /\ cwait = "none"
  /\ cnext <= Len(cframes)
  /\ cframes[cnext] \in {"no size", "no window"}
  /\ cnext' = cnext + 1
  /\ UNCHANGED <<cpc, csvg, cctx, cimgs, cframes, cstages, cwait, cclock, ctime,
                 cposted, cmsgs, cdrawn, ctainted, cresp>>
  /\ UNCHANGED notCaptureVars

\* captureIframeContent: start the timer, add the listener, post the request.
FrameRequest ==
  /\ cpc = "loop"
  /\ cwait = "none"
  /\ cnext <= Len(cframes)
  /\ cframes[cnext] \notin {"no size", "no window"}
  /\ cwait' = "waiting"
  /\ cclock' = 0
  /\ cposted' = cnext
  /\ UNCHANGED <<cpc, csvg, cctx, cimgs, cframes, cstages, cnext, ctime, cmsgs,
                 cdrawn, ctainted, cresp>>
  /\ UNCHANGED notCaptureVars

\* The iframe that got the request posts its answer, if it ever answers.
IframeReply ==
  /\ cposted # 0
  /\ cframes[cposted] # "silent"
  /\ cmsgs' = cmsgs \cup {ReplyOf(cframes[cposted], CaptureId(cposted))}
  /\ cposted' = 0
  /\ UNCHANGED <<cpc, csvg, cctx, cimgs, cframes, cstages, cnext, cwait, cclock,
                 ctime, cdrawn, ctainted, cresp>>
  /\ UNCHANGED notCaptureVars

\* The listener of the current request takes a message: the ids must match.
Accepts(m) == cwait = "waiting" /\ m.id = CaptureId(cnext)

\* The window gets a message. The listener of a matching one removes itself
\* and clears the timer; with success and data the image is loaded and, if
\* it decodes, drawn at the rect of the iframe; an image of another origin
\* taints the canvas.
FrameMessage(m) ==
  /\ m \in cmsgs
  /\ cmsgs' = cmsgs \ {m}
  /\ IF Accepts(m)
       THEN /\ cwait' = "none"
            /\ cclock' = 0
            /\ cnext' = cnext + 1
            /\ IF m.success /\ m.data \in {"jpeg data url", "foreign url"}
                 THEN /\ cdrawn' = cdrawn \cup {cnext}
                      /\ ctainted' = IF m.data = "foreign url"
                                        THEN ctainted \cup {"iframe"}
                                        ELSE ctainted
                 ELSE UNCHANGED <<cdrawn, ctainted>>
       ELSE UNCHANGED <<cwait, cclock, cnext, cdrawn, ctainted>>
  /\ UNCHANGED <<cpc, csvg, cctx, cimgs, cframes, cstages, ctime, cposted, cresp>>
  /\ UNCHANGED notCaptureVars

\* Time passes while the handler waits for an iframe; a timer that is due
\* fires before the clock moves on.
CaptureTick ==
  /\ cwait = "waiting"
  /\ cclock < CaptureDeadline
  /\ cclock' = cclock + CaptureDeadline
  /\ ctime' = ctime + CaptureDeadline
  /\ UNCHANGED <<cpc, csvg, cctx, cimgs, cframes, cstages, cnext, cwait, cposted,
                 cmsgs, cdrawn, ctainted, cresp>>
  /\ UNCHANGED notCaptureVars

\* The timer of captureIframeContent fires: listener removed, resolve(null).
FrameTimeout ==
  /\ cwait = "waiting"
  /\ cclock >= CaptureDeadline
  /\ cwait' = "none"
  /\ cclock' = 0
  /\ cnext' = cnext + 1
  /\ UNCHANGED <<cpc, csvg, cctx, cimgs, cframes, cstages, ctime, cposted, cmsgs,
                 cdrawn, ctainted, cresp>>
  /\ UNCHANGED notCaptureVars

\* The loop is over: canvas.toDataURL('image/jpeg', quality / 100), which
\* throws a SecurityError on a tainted canvas.
Encode ==
  /\ cpc = "loop"
  /\ cwait = "none"
  /\ cnext > Len(cframes)
  /\ cpc' = IF ctainted # {} THEN "catch" ELSE "emit"
  /\ UNCHANGED <<csvg, cctx, cimgs, cframes, cstages, cnext, cwait, cclock, ctime,
                 cposted, cmsgs, cdrawn, ctainted, cresp>>
  /\ UNCHANGED notCaptureVars

\* emit('capture-screenshot-response', ...) of the try or the catch block.
CaptureEmit ==
  /\ cpc \in {"emit", "catch"}
  /\ cresp' = IF cpc = "emit" THEN [success |-> TRUE, body |-> "jpeg data url"]
              ELSE [success |-> FALSE, body |-> "error"]
  /\ cpc' = "done"
  /\ UNCHANGED <<csvg, cctx, cimgs, cframes, cstages, cnext, cwait, cclock, ctime,
                 cposted, cmsgs, cdrawn, ctainted>>
  /\ UNCHANGED notCaptureVars

CaptureNext ==
  \/ /\ cpc = "idle"
     /\ \E frames \in FrameLists, svg \in SvgOutcomes, context \in BOOLEAN,
           imgs \in BOOLEAN :
          CaptureDeliver(frames, svg, context, imgs)
  \/ CaptureStart
  \/ RenderDomToCanvas
  \/ RenderSimplifiedSnapshot
  \/ CompositeBegin
  \/ FrameSkip
  \/ FrameRequest
  \/ IframeReply
  \/ \E m \in cmsgs : FrameMessage(m)
  \/ CaptureTick
  \/ FrameTimeout
  \/ Encode
  \/ CaptureEmit

(***************************************************************************)
(* Part 8: the size of the canvas of capturePageAsImage. The scale is the   *)
(* fraction maxWidth / viewportWidth; a product with it is kept as the      *)
(* fraction it is and rounded as Math.round rounds, halves upwards.         *)
(***************************************************************************)
\* The widths and heights in pixels that are tried.
Pixels == 0..MaxPixels

NotSized == 0 - 1

\* Math.round(num / den) for num >= 0 and den > 0.
Round(num, den) == (2 * num + den) \div (2 * den)

\* Math.round(length * scale) with scale = maxW / vw when vw > maxW, else 1.
Scaled(length, vw, maxW) ==
  IF vw > maxW THEN Round(length * maxW, vw) ELSE length

ScaleInit ==
  /\ viewportWidth = 0
  /\ viewportHeight = 0
  /\ maxWidth = 0
  /\ canvasWidth = NotSized
  /\ canvasHeight = NotSized

\* A capture begins in a window of the given size.
ViewportIs(w, h, m) ==
  /\ viewportWidth' = w
  /\ viewportHeight' = h
  /\ maxWidth' = m
  /\ canvasWidth' = NotSized
  /\ canvasHeight' = NotSized
  /\ UNCHANGED notScaleVars

\* A canvas of the size of the viewport whatever the maximum.
SizeCanvasUnscaled ==
  /\ canvasWidth = NotSized
  /\ canvasWidth' = viewportWidth
  /\ canvasHeight' = viewportHeight
  /\ UNCHANGED <<viewportWidth, viewportHeight, maxWidth>>
  /\ UNCHANGED notScaleVars

\* canvas.width = Math.round(viewportWidth * scale), and the height alike.
SizeCanvas ==
  /\ canvasWidth = NotSized
  /\ canvasWidth' = Scaled(viewportWidth, viewportWidth, maxWidth)
  /\ canvasHeight' = Scaled(viewportHeight, viewportWidth, maxWidth)
  /\ UNCHANGED <<viewportWidth, viewportHeight, maxWidth>>
  /\ UNCHANGED notScaleVars

ScaleNext ==
  \/ \E w \in Pixels, h \in Pixels, m \in Pixels : ViewportIs(w, h, m)
  \/ SizeCanvas

(***************************************************************************)
(* Part 9: handleLocalStorageRequest and performLocalStorageOperation. The  *)
(* handler has no suspension point before its emit, so one invocation is    *)
(* one step.                                                                *)
(***************************************************************************)
Undefined == "undefined value"
Absent == "absent item"

\* The strings a payload carries as key and as value.
PayloadKeys == {"k", "[1]", ""}
PayloadValues == {"v", "", "{\"a\":1}", "[1,2]", "{oops"}
StorageActions == {"get", "set", "remove", "clear", "keys", "purge"}

\* s.trim().startsWith('{') || s.trim().startsWith('[')
LooksLikeJson(s) == s \in {"{\"a\":1}", "[1,2]", "[1]", "{oops"}

\* JSON.parse(s) throws.
ParseThrows(s) == s = "{oops"

\* String(JSON.parse(s)) for the strings that parse: an object gives
\* [object Object], an array its elements joined by commas.
StringOfParsed(s) ==
  CASE s = "{\"a\":1}" -> "[object Object]"
    [] s = "[1,2]" -> "1,2"
    [] s = "[1]" -> "1"

\* let processed = x; if (typeof x === 'string') try { if (looks like JSON)
\* processed = JSON.parse(x) } catch keep. The result is kept by its
\* String(...) and by whether it is a string still.
Processed(x) ==
  IF x # Undefined /\ LooksLikeJson(x) /\ ~ParseThrows(x)
    THEN [parsed |-> TRUE, str |-> StringOfParsed(x)]
    ELSE [parsed |-> FALSE, str |-> x]

\* !x for a processed key: undefined and the empty string are falsy, every
\* object and array is truthy.
Falsy(p) == ~p.parsed /\ p.str \in {Undefined, ""}

\* The keys localStorage can come to hold.
StoredKeys == {Processed(k).str : k \in PayloadKeys} \ {""}
StoredValues == {Processed(v).str : v \in PayloadValues}

\* case 'get' without a key: every item, an empty value read as ''.
AllItems(st) == [k \in {j \in StoredKeys : st[j] # Absent} |-> st[k]]

\* Object.keys(localStorage)
KeysOf(st) == {k \in StoredKeys : st[k] # Absent}

Failure(msg) == [success |-> FALSE, data |-> msg]
Success(data) == [success |-> TRUE, data |-> data]
NoData == "no data"
NullData == "null"
NoStorageRequest == [action |-> "none", key |-> Undefined, value |-> Undefined]

StorageInit ==
  /\ storage = [k \in StoredKeys |-> Absent]
  /\ sreq = NoStorageRequest
  /\ sresp = Failure("none")

\* performLocalStorageOperation(action, key, value): the response and the
\* storage it leaves.
Perform(action, key, value, st) ==
  CASE action = "get" ->
         IF Falsy(key) THEN [resp |-> Success(AllItems(st)), st |-> st]
         ELSE [resp |-> Success(IF st[key.str] = Absent THEN NullData
                                ELSE st[key.str]),
               st |-> st]
    [] action = "set" ->
         IF Falsy(key)
           THEN [resp |-> Failure("Key is required for set operation"),
                 st |-> st]
         ELSE IF value.str = Undefined
           THEN [resp |-> Failure("Value is required for set operation"),
                 st |-> st]
         ELSE [resp |-> Success(NoData),
               st |-> [st EXCEPT ![key.str] = value.str]]
    [] action = "remove" ->
         IF Falsy(key)
           THEN [resp |-> Failure("Key is required for remove operation"),
                 st |-> st]
         ELSE [resp |-> Success(NoData),
               st |-> [st EXCEPT ![key.str] = Absent]]
    [] action = "clear" ->
         [resp |-> Success(NoData), st |-> [k \in StoredKeys |-> Absent]]
    [] action = "keys" -> [resp |-> Success(KeysOf(st)), st |-> st]
    [] OTHER -> [resp |-> Failure("Unsupported localStorage action"),
                 st |-> st]

\* handleLocalStorageRequest(event) with payload {action, key, value}.
HandleLocalStorageRequest(action, key, value) ==
  LET done == Perform(action, Processed(key), Processed(value), storage)
  IN /\ storage' = done.st
     /\ sreq' = [action |-> action, key |-> key, value |-> value]
     /\ sresp' = done.resp
     /\ UNCHANGED <<margs, mstage, msent, mresult>>
     /\ UNCHANGED notStorageVars

StorageNext ==
  \E action \in StorageActions, key \in PayloadKeys \cup {Undefined},
     value \in PayloadValues \cup {Undefined} :
    HandleLocalStorageRequest(action, key, value)

(***************************************************************************)
(* Part 10: handleSendTextToElementRequest from the found element on, with  *)
(* simulateReactInputTyping, typeIntoContentEditable, typeIntoLexicalEditor *)
(* and typeIntoSlateEditor. One invocation runs alone here, so the          *)
(* inter-character delay does not show. The log holds the calls the handler *)
(* makes on the element and the document, not the events the engine fires   *)
(* by itself.                                                               *)
(***************************************************************************)
\* instanceof HTMLInputElement / HTMLTextAreaElement
NativeKinds == {"input", "textarea"}

\* isContentEditable: with the data-lexical-editor attribute, with a
\* [data-slate-editor="true"] descendant, or plain.
EditableKinds == {"lexical", "slate", "editable"}

ElementKinds == NativeKinds \cup EditableKinds \cup {"other"}

\* Where a DOM call of the typing function throws, if one does.
Faults == {"none", "clear", "type"}

\* One call of the handler: what, in which stage, for which character.
Ev(ev, at, n) == [ev |-> ev, at |-> at, n |-> n]

\* The value or text content after content is assigned to the element.
Assigned(kind, t) == IF kind \in NativeKinds THEN SetValue(kind, t) ELSE t

\* An element as the handler tests it: its tag, isContentEditable,
\* hasAttribute('data-lexical-editor'), and whether it has a
\* [data-slate-editor="true"] descendant.
FoundElements ==
  [tag : {"input", "textarea", "div"}, editable : BOOLEAN,
   lexical : BOOLEAN, slate : BOOLEAN]

NoElement == [tag |-> "none", editable |-> FALSE, lexical |-> FALSE,
              slate |-> FALSE]

\* A branch that looks for the Slate descendant first.
KindOfSlateFirst(e) ==
  IF e.tag \in NativeKinds THEN e.tag
  ELSE IF ~e.editable THEN "other"
  ELSE IF e.slate THEN "slate"
  ELSE IF e.lexical THEN "lexical"
  ELSE "editable"

\* The branch of the handler: instanceof HTMLInputElement or
\* HTMLTextAreaElement, else isContentEditable with isLexicalEditor, then
\* isSlateEditor, then the generic case, else the other elements.
KindOf(e) ==
  IF e.tag \in NativeKinds THEN e.tag
  ELSE IF ~e.editable THEN "other"
  ELSE IF e.lexical THEN "lexical"
  ELSE IF e.slate THEN "slate"
  ELSE "editable"

\* What the handler does for an element of each kind.
PathOf(kind) ==
  CASE kind \in NativeKinds -> "simulateReactInputTyping"
    [] kind = "lexical" -> "typeIntoLexicalEditor"
    [] kind = "slate" -> "typeIntoSlateEditor"
    [] kind = "editable" -> "typeIntoContentEditable"
    [] OTHER -> "element.textContent = text"

NoInjectResponse == [success |-> FALSE, text |-> <<>>]

InjectInit ==
  /\ jkind = "none"
  /\ jtext = <<>>
  /\ jfault = "none"
  /\ jprevent = FALSE
  /\ jpc = "idle"
  /\ ji = 0
  /\ jcontent = <<>>
  /\ jcaught = FALSE
  /\ jlog = <<>>
  /\ jresp = NoInjectResponse
  /\ jelement = NoElement
  /\ jpath = <<>>

\* The event is delivered and the element is found.
InjectDeliver(element, text, fault, prevent) ==
  /\ jpc = "idle"
  /\ jelement' = element
  /\ jkind' = KindOf(element)
  /\ jtext' = text
  /\ jfault' = fault
  /\ jprevent' = prevent
  /\ jpc' = "found"
  /\ UNCHANGED <<ji, jcontent, jcaught, jlog, jresp, jpath>>
  /\ UNCHANGED notInjectVars

\* element.focus(), then the branch on the kind of element: a typing
\* function, which focuses again and awaits, or element.textContent = text.
InjectStart ==
  /\ jpc = "found"
  /\ IF jkind = "other"
       THEN /\ jcontent' = jtext
            /\ jlog' = jlog \o <<Ev("focus", "handler", 0),
                                 Ev("assign", "direct", 0)>>
            /\ jpc' = "emit"
       ELSE /\ jlog' = jlog \o <<Ev("focus", "handler", 0),
                                 Ev("focus", "typing", 0)>>
            /\ jpc' = "clear"
            /\ UNCHANGED jcontent
  /\ jpath' = Append(jpath, PathOf(jkind))
  /\ UNCHANGED <<jkind, jtext, jfault, jprevent, ji, jcaught, jresp,
                 jelement>>
  /\ UNCHANGED notInjectVars

\* The catch block of the typing function: the text is assigned and an
\* input event dispatched; simulateReactInputTyping adds a change event.
CatchLog(kind) ==
  <<Ev("assign", "fallback", 0), Ev("input", "fallback", 0)>>
    \o (IF kind \in NativeKinds THEN <<Ev("change", "fallback", 0)>>
        ELSE <<>>)

\* A DOM call threw: the catch block runs, and the typing function goes on
\* to its end.
InjectCatch ==
  /\ jcaught' = TRUE
  /\ jcontent' = Assigned(jkind, jtext)
  /\ jlog' = jlog \o CatchLog(jkind)
  /\ jpc' = IF jkind \in NativeKinds THEN "check" ELSE "emit"
  /\ UNCHANGED <<jkind, jtext, jfault, jprevent, ji, jresp>>
  /\ UNCHANGED <<jelement, jpath>>
  /\ UNCHANGED notInjectVars

\* What clearing the element takes: value = '' with input and change; or
\* innerHTML = '', the paragraphs of Lexical emptied, with input; or
\* execCommand selectAll and delete.
ClearLog(kind) ==
  CASE kind \in NativeKinds ->
         <<Ev("set", "clear", 0), Ev("input", "clear", 0),
           Ev("change", "clear", 0)>>
    [] kind \in {"editable", "lexical"} ->
         <<Ev("innerHTML", "clear", 0), Ev("input", "clear", 0)>>
    [] kind = "slate" -> <<Ev("delete", "clear", 0)>>

InjectClear ==
  /\ jpc = "clear"
  /\ IF jfault = "clear" THEN InjectCatch
     ELSE /\ jcontent' = <<>>
          /\ jlog' = jlog \o ClearLog(jkind)
          /\ jpc' = "type"
          /\ UNCHANGED <<jkind, jtext, jfault, jprevent, ji, jcaught, jresp>>
          /\ UNCHANGED <<jelement, jpath>>
  /\ UNCHANGED notInjectVars

\* One turn of the loop of each typing function, for character n.
TypeLog(kind, n, prevented) ==
  CASE kind \in NativeKinds ->
         <<Ev("keydown", "type", n), Ev("set", "type", n),
           Ev("input", "type", n), Ev("keyup", "type", n)>>
    [] kind = "editable" ->
         <<Ev("keydown", "type", n), Ev("insertNode", "type", n),
           Ev("input", "type", n), Ev("keyup", "type", n)>>
    [] kind = "lexical" ->
         <<Ev("beforeinput", "type", n), Ev("keydown", "type", n)>>
           \o (IF prevented THEN <<>> ELSE <<Ev("insertText", "type", n)>>)
           \o <<Ev("input", "type", n), Ev("keyup", "type", n)>>
    [] kind = "slate" ->
         <<Ev("keydown", "type", n), Ev("insertText", "type", n),
           Ev("input", "type", n), Ev("keyup", "type", n)>>

\* A loop that dispatches keyup before the input event.
InjectTypeKeyupFirst ==
  /\ jpc = "type"
  /\ ji < Len(jtext)
  /\ ji' = ji + 1
  /\ jcontent' = Assigned(jkind, SubSeq(jtext, 1, ji + 1))
  /\ jlog' = jlog \o <<Ev("keydown", "type", ji + 1),
                       Ev("set", "type", ji + 1),
                       Ev("keyup", "type", ji + 1),
                       Ev("input", "type", ji + 1)>>
  /\ UNCHANGED <<jkind, jtext, jfault, jprevent, jpc, jcaught, jresp>>
  /\ UNCHANGED <<jelement, jpath>>
  /\ UNCHANGED notInjectVars

\* The loop types the next character: the value becomes the prefix, or the
\* character is added at the end, unless the page prevented the insertion.
InjectType ==
  /\ jpc = "type"
  /\ ji < Len(jtext)
  /\ IF jfault = "type" THEN InjectCatch
     ELSE /\ ji' = ji + 1
          /\ jcontent' =
               IF jkind \in NativeKinds
                 THEN Assigned(jkind, SubSeq(jtext, 1, ji + 1))
               ELSE IF jkind = "lexical" /\ jprevent THEN jcontent
               ELSE Append(jcontent, jtext[ji + 1])
          /\ jlog' = jlog \o TypeLog(jkind, ji + 1, jprevent)
          /\ UNCHANGED <<jkind, jtext, jfault, jprevent, jpc, jcaught, jresp>>
          /\ UNCHANGED <<jelement, jpath>>
  /\ UNCHANGED notInjectVars

\* After the loop: the change event of the native and the plain editable
\* path; the native path then awaits and checks the value.
InjectFinish ==
  /\ jpc = "type"
  /\ ji = Len(jtext)
  /\ jlog' = IF jkind \in NativeKinds \cup {"editable"}
               THEN Append(jlog, Ev("change", "finish", 0))
               ELSE jlog
  /\ jpc' = IF jkind \in NativeKinds THEN "check" ELSE "emit"
  /\ UNCHANGED <<jkind, jtext, jfault, jprevent, ji, jcontent, jcaught, jresp>>
  /\ UNCHANGED <<jelement, jpath>>
  /\ UNCHANGED notInjectVars

\* if (element.value !== text) { element.value = text; input; change }
InjectCheck ==
  /\ jpc = "check"
  /\ IF jcontent # jtext
       THEN /\ jcontent' = Assigned(jkind, jtext)
            /\ jlog' = jlog \o <<Ev("set", "check", 0), Ev("input", "check", 0),
                                 Ev("change", "check", 0)>>
       ELSE UNCHANGED <<jcontent, jlog>>
  /\ jpc' = "emit"
  /\ UNCHANGED <<jkind, jtext, jfault, jprevent, ji, jcaught, jresp>>
  /\ UNCHANGED <<jelement, jpath>>
  /\ UNCHANGED notInjectVars

\* emit('send-text-to-element-response', {success: true, data: ...})
InjectEmit ==
  /\ jpc = "emit"
  /\ jresp' = [success |-> TRUE, text |-> jtext]
  /\ jlog' = Append(jlog, Ev("emit", "handler", 0))
  /\ jpc' = "done"
  /\ UNCHANGED <<jkind, jtext, jfault, jprevent, ji, jcontent, jcaught>>
  /\ UNCHANGED <<jelement, jpath>>
  /\ UNCHANGED notInjectVars

InjectNext ==
  \/ /\ jpc = "idle"
     /\ \E element \in FoundElements, text \in Texts, fault \in Faults,
           prevent \in BOOLEAN :
          /\ prevent => KindOf(element) = "lexical"
          /\ fault # "none" => KindOf(element) # "other"
          /\ InjectDeliver(element, text, fault, prevent)
  \/ InjectStart
  \/ InjectClear
  \/ InjectType
  \/ InjectFinish
  \/ InjectCheck
  \/ InjectEmit

(***************************************************************************)
(* Part 11: the parameters of capture_screenshot: the zod schema and the    *)
(* handler of registerCaptureScreenshotTool, the payload of the             *)
(* capture-screenshot event, and the destructuring defaults of              *)
(* handleCaptureScreenshotRequest. The host between the two hands quality   *)
(* and max_width on as {quality, maxWidth} (spec 4.5); an event may also    *)
(* come from a client other than the tool, with fields missing.             *)
(***************************************************************************)
DefaultWindowLabel == "main"
DefaultQuality == 85
DefaultMaxWidth == 1920
MinQuality == 1
MaxQuality == 100

\* A parameter that is given with a value, and one that is left out.
Given(v) == [given |-> TRUE, v |-> v]
OmittedNumber == [given |-> FALSE, v |-> 0]
OmittedString == [given |-> FALSE, v |-> ""]

LabelArgs == {OmittedString, Given(""), Given("main"), Given("preview")}
QualityArgs ==
  {OmittedNumber} \cup
  {Given(q) : q \in {MinQuality - 2, MinQuality - 1, MinQuality, 50,
                     MaxQuality, MaxQuality + 1}}
MaxWidthArgs == {OmittedNumber} \cup {Given(w) : w \in {0, 320, 3840}}

Args(label, quality, maxW) ==
  [window_label |-> label, quality |-> quality, max_width |-> maxW]
NoArgs == Args(OmittedString, OmittedNumber, OmittedNumber)
NoCommand == [window_label |-> "none", quality |-> 0, max_width |-> 0]
NoCapture == [window_label |-> "none", quality |-> 0, maxWidth |-> 0]
NoEventPayload == [quality |-> OmittedNumber, maxWidth |-> OmittedNumber]

\* z.number().min(1).max(100) on a quality that is given.
QualityValid(q) == ~q.given \/ (q.v >= MinQuality /\ q.v <= MaxQuality)

\* A schema that takes every number for a quality.
SchemaAcceptsAnyQuality(a) == TRUE

\* The schema accepts the arguments: strings and numbers as typed here, the
\* quality within its range.
SchemaAccepts(a) == QualityValid(a.quality)

\* .default(...) of the schema
WithDefault(p, dflt) == IF p.given THEN p.v ELSE dflt

\* x || dflt on a parsed string: the empty string is falsy.
OrString(s, dflt) == IF s = "" THEN dflt ELSE s

\* x || dflt on a parsed number: 0 is falsy.
OrNumber(n, dflt) == IF n = 0 THEN dflt ELSE n

\* const params = { window_label: window_label || "main", quality:
\* quality || 85, max_width: max_width || 1920 } on the parsed arguments.
ToolParams(a) ==
  [window_label |-> OrString(WithDefault(a.window_label, DefaultWindowLabel),
                             DefaultWindowLabel),
   quality |-> OrNumber(WithDefault(a.quality, DefaultQuality),
                        DefaultQuality),
   max_width |-> OrNumber(WithDefault(a.max_width, DefaultMaxWidth),
                          DefaultMaxWidth)]

ParamInit ==
  /\ pargs = NoArgs
  /\ pstage = "idle"
  /\ psent = NoCommand
  /\ ppayload = NoEventPayload
  /\ pcapture = NoCapture

\* An MCP client calls the tool.
ToolCall(label, quality, maxW) ==
  /\ pstage = "idle"
  /\ pargs' = Args(label, quality, maxW)
  /\ pstage' = "called"
  /\ UNCHANGED <<psent, ppayload, pcapture>>
  /\ UNCHANGED notParamVars

\* The arguments are parsed against the schema before the handler runs.
Validate ==
  /\ pstage = "called"
  /\ pstage' = IF SchemaAccepts(pargs) THEN "parsed" ELSE "rejected"
  /\ UNCHANGED <<pargs, psent, ppayload, pcapture>>
  /\ UNCHANGED notParamVars

\* socketClient.sendCommand('capture_screenshot', params)
SendCommand ==
  /\ pstage = "parsed"
  /\ psent' = ToolParams(pargs)
  /\ pstage' = "sent"
  /\ UNCHANGED <<pargs, ppayload, pcapture>>
  /\ UNCHANGED notParamVars

\* The host emits capture-screenshot to the window of the label.
ForwardCommand ==
  /\ pstage = "sent"
  /\ ppayload' = [quality |-> Given(psent.quality),
                  maxWidth |-> Given(psent.max_width)]
  /\ pcapture' = [pcapture EXCEPT !.window_label = psent.window_label]
  /\ pstage' = "event"
  /\ UNCHANGED <<pargs, psent>>
  /\ UNCHANGED notParamVars

\* A capture-screenshot event of another client, with or without fields.
RawEvent(quality, maxW) ==
  /\ pstage = "idle"
  /\ ppayload' = [quality |-> quality, maxWidth |-> maxW]
  /\ pcapture' = [pcapture EXCEPT !.window_label = DefaultWindowLabel]
  /\ pstage' = "event"
  /\ UNCHANGED <<pargs, psent>>
  /\ UNCHANGED notParamVars

\* const { quality = 85, maxWidth = 1920 } = event.payload || {};
\* capturePageAsImage(quality, maxWidth)
HandleCapture ==
  /\ pstage = "event"
  /\ pcapture' = [pcapture EXCEPT
                    !.quality = WithDefault(ppayload.quality, DefaultQuality),
                    !.maxWidth = WithDefault(ppayload.maxWidth,
                                             DefaultMaxWidth)]
  /\ pstage' = "capturing"
  /\ UNCHANGED <<pargs, psent, ppayload>>
  /\ UNCHANGED notParamVars

ParamNext ==
  \/ /\ pstage = "idle"
     /\ \E label \in LabelArgs, quality \in QualityArgs,
           maxW \in MaxWidthArgs : ToolCall(label, quality, maxW)
  \/ Validate
  \/ SendCommand
  \/ ForwardCommand
  \/ /\ pstage = "idle"
     /\ \E quality \in QualityArgs, maxW \in MaxWidthArgs :
          RawEvent(quality, maxW)
  \/ HandleCapture

(***************************************************************************)
(* Part 12: handleJsExecutionRequest and executeJavaScript. A JavaScript    *)
(* value is kept by what the handler asks of it: whether it is undefined or *)
(* null, its typeof, the text String(value) gives, and what                 *)
(* JSON.stringify(value) does with it: a text, undefined, or an exception.  *)
(***************************************************************************)
JsValue(kind, type, str, json, text) ==
  [kind |-> kind, type |-> type, str |-> str, json |-> json, text |-> text]

JsUndefined == JsValue("undefined", "undefined", "undefined", "undefined", "")

Primitive(type, str) == JsValue("other", type, str, "text", str)

\* An object or array with the JSON text JSON.stringify gives for it.
JsonObject(str, text) == JsValue("object", "object", str, "text", text)

\* The values the code of a request evaluates to.
JsValues ==
  { JsUndefined,
    JsValue("null", "object", "null", "text", "null"),
    Primitive("string", ""), Primitive("string", "text"),
    Primitive("string", "null"),
    Primitive("number", "0"), Primitive("number", "42"),
    Primitive("number", "-1"), Primitive("number", "2"),
    JsValue("other", "number", "NaN", "text", "null"),
    JsValue("other", "number", "Infinity", "text", "null"),
    Primitive("boolean", "true"), Primitive("boolean", "false"),
    JsValue("other", "bigint", "10", "throws", ""),
    JsValue("other", "symbol", "Symbol()", "undefined", ""),
    JsValue("other", "function", "() => 1", "undefined", ""),
    JsonObject("[object Object]", "{}"),
    JsonObject("[object Object]", "{\"a\":1,\"b\":2}"),
    JsonObject("[object Object]", "{\"nested\":{\"deep\":true}}"),
    JsonObject("", "[]"),
    JsonObject("1,2,3", "[1,2,3]"),
    JsonObject("[object HTMLDivElement]", "{}"),
    JsonObject("[object Promise]", "{}"),
    \* new Date(0): toJSON gives the ISO string
    JsonObject("Thu Jan 01 1970", "\"1970-01-01T00:00:00.000Z\""),
    \* an object that refers to itself: JSON.stringify throws a TypeError
    JsValue("object", "object", "[object Object]", "throws", ""),
    \* {n: 10n}: JSON.stringify throws a TypeError
    JsValue("object", "object", "[object Object]", "throws", "bigint"),
    \* ({toJSON() {}}): JSON.stringify returns undefined
    JsValue("object", "object", "[object Object]", "undefined", "") }

\* The code of a request: an expression that yields the value, one that
\* throws when it runs, one that throws the first time it runs only;
\* statements that are no expression, without a return, with a return of
\* the value, or throwing; and text that is no JavaScript at all.
ExpressionForms == {"expression", "expression throws", "expression throws once"}
StatementForms == {"statements", "statements return", "statements throw"}
CodeForms == ExpressionForms \cup StatementForms \cup {"syntax error"}

\* A result or error field of a response: a string, or something else.
Str(s) == [isString |-> TRUE, s |-> s]
NotStr(what) == [isString |-> FALSE, s |-> what]

NoExecResponse == [result |-> NotStr("none"), type |-> "none"]

ExecInit ==
  /\ xvalue = JsUndefined
  /\ xform = "none"
  /\ xpc = "idle"
  /\ xresult = JsUndefined
  /\ xresp = NoExecResponse
  /\ xruns = 0

\* The execute-js event is delivered with its code.
ExecDeliver(value, form) ==
  /\ xpc = "idle"
  /\ xvalue' = value
  /\ xform' = form
  /\ xpc' = "run"
  /\ UNCHANGED <<xresult, xresp, xruns>>
  /\ UNCHANGED notExecVars

\* executeJavaScript, the try block: new Function(`return (${code})`)()
\* runs the code if it is an expression and returns its value; a
\* SyntaxError of the compilation and an exception of the run both go to
\* the catch block.
RunAsExpression ==
  /\ xpc = "run"
  /\ IF xform \in ExpressionForms
       THEN /\ xruns' = xruns + 1
            /\ IF xform = "expression"
                 THEN xresult' = xvalue /\ xpc' = "stringify"
                 ELSE xpc' = "retry" /\ UNCHANGED xresult
       ELSE /\ xpc' = "retry"
            /\ UNCHANGED <<xruns, xresult>>
  /\ UNCHANGED <<xvalue, xform, xresp>>
  /\ UNCHANGED notExecVars

\* executeJavaScript, the catch block: new Function(code)() runs the code
\* as statements; an expression is a statement too. Without a return the
\* call gives undefined; what it throws goes to the catch of the handler.
RunAsStatements ==
  /\ xpc = "retry"
  /\ IF xform = "syntax error"
       THEN xpc' = "catch" /\ UNCHANGED <<xruns, xresult>>
       ELSE /\ xruns' = xruns + 1
            /\ IF xform \in {"expression throws", "statements throw"}
                 THEN xpc' = "catch" /\ UNCHANGED xresult
                 ELSE /\ xresult' = IF xform = "statements return"
                                      THEN xvalue ELSE JsUndefined
                      /\ xpc' = "stringify"
  /\ UNCHANGED <<xvalue, xform, xresp>>
  /\ UNCHANGED notExecVars

\* JSON.stringify(v), where it returns.
JsonStringify(v) == IF v.json = "text" THEN Str(v.text) ELSE NotStr("undefined")

\* let resultStr: 'undefined', 'null', JSON.stringify(result) for typeof
\* 'object', String(result) otherwise.
ResultStr(v) ==
  IF v.kind = "undefined" THEN Str("undefined")
  ELSE IF v.kind = "null" THEN Str("null")
  ELSE IF v.type = "object" THEN JsonStringify(v)
  ELSE Str(v.str)

\* The try block from the result to the response; JSON.stringify may throw.
Stringify ==
  /\ xpc = "stringify"
  /\ IF xresult.type = "object" /\ xresult.kind = "object"
        /\ xresult.json = "throws"
       THEN xpc' = "catch" /\ UNCHANGED xresp
       ELSE /\ xresp' = [result |-> ResultStr(xresult), type |-> xresult.type]
            /\ xpc' = "emitted"
  /\ UNCHANGED <<xvalue, xform, xresult, xruns>>
  /\ UNCHANGED notExecVars

\* catch: emit({result: null, type: 'error', error: errorMessage})
ExecCatch ==
  /\ xpc = "catch"
  /\ xresp' = [result |-> NotStr("null"), type |-> "error"]
  /\ xpc' = "failed"
  /\ UNCHANGED <<xvalue, xform, xresult, xruns>>
  /\ UNCHANGED notExecVars

ExecNext ==
  \/ /\ xpc = "idle"
     /\ \E value \in JsValues, form \in CodeForms : ExecDeliver(value, form)
  \/ RunAsExpression
  \/ RunAsStatements
  \/ Stringify
  \/ ExecCatch

(***************************************************************************)
(* Part 13: what capturePageAsImage does to the document. The body has an   *)
(* inline style and a list of child elements, each with a tag and an inline *)
(* style; an inline style is the set of the properties it sets.             *)
(***************************************************************************)
MaxNodes == 2

Tags == {"div", "script", "iframe"}

\* The allow-list of inlineStyles, cut down to two properties.
ImportantStyles == {"color", "display"}

InlineStyleSets == {{}, {"color", "cursor"}}

Elements == [tag : Tags, style : InlineStyleSets]

RECURSIVE ChildrenOfLength(_)
ChildrenOfLength(n) ==
  IF n = 0 THEN {<<>>}
  ELSE {Append(s, e) : s \in ChildrenOfLength(n - 1), e \in Elements}

Bodies ==
  [style : InlineStyleSets,
   children : UNION {ChildrenOfLength(n) : n \in 0..MaxNodes}]

EmptyDocument == [style |-> {}, children |-> <<>>]

DocInit ==
  /\ liveDoc = EmptyDocument
  /\ startDoc = EmptyDocument
  /\ clone = EmptyDocument
  /\ docPc = "idle"
  /\ docI = 0
  /\ docSvg = "none"
  /\ docCanvas = {}
  /\ docCreated = 0
  /\ docRevoked = 0

\* A capture-screenshot request arrives while the page shows doc.
DocDeliver(doc, svg) ==
  /\ docPc = "idle"
  /\ liveDoc' = doc
  /\ startDoc' = doc
  /\ docSvg' = svg
  /\ docPc' = "clone"
  /\ UNCHANGED <<clone, docI, docCanvas>>
  /\ UNCHANGED <<docCreated, docRevoked>>
  /\ UNCHANGED notDocVars

\* const clone = document.body.cloneNode(true)
CloneBody ==
  /\ docPc = "clone"
  /\ clone' = liveDoc
  /\ docI' = 0
  /\ docPc' = "inline"
  /\ UNCHANGED <<liveDoc, startDoc, docSvg, docCanvas>>
  /\ UNCHANGED <<docCreated, docRevoked>>
  /\ UNCHANGED notDocVars

\* getComputedStyle(source) has a value for every property of the list;
\* clone.style.setProperty(prop, value) adds it to the inline style.
WithComputed(style) == style \cup ImportantStyles

\* The document with the inline style of node i replaced (0 is the body).
WithStyle(doc, i, style) ==
  IF i = 0 THEN [doc EXCEPT !.style = style]
  ELSE [doc EXCEPT !.children[i].style = style]

StyleOf(doc, i) == IF i = 0 THEN doc.style ELSE doc.children[i].style

\* The mutation: the properties are set on the source element.
InlineStylesOfSource ==
  /\ docPc = "inline"
  /\ IF docI <= Len(liveDoc.children) /\ docI <= Len(clone.children)
       THEN /\ liveDoc' = WithStyle(liveDoc, docI,
                                    WithComputed(StyleOf(liveDoc, docI)))
            /\ docI' = docI + 1
            /\ UNCHANGED <<clone, docPc>>
       ELSE /\ docPc' = "scripts"
            /\ UNCHANGED <<liveDoc, clone, docI>>
  /\ UNCHANGED <<startDoc, docSvg, docCanvas>>
  /\ UNCHANGED <<docCreated, docRevoked>>
  /\ UNCHANGED notDocVars

\* inlineStyles(clone, document.body): one call per element, the body
\* first, then the children up to the shorter of the two child lists.
InlineStyles ==
  /\ docPc = "inline"
  /\ IF docI <= Len(liveDoc.children) /\ docI <= Len(clone.children)
       THEN /\ clone' = WithStyle(clone, docI,
                                  WithComputed(StyleOf(clone, docI)))
            /\ docI' = docI + 1
            /\ UNCHANGED <<liveDoc, docPc>>
       ELSE /\ docPc' = "scripts"
            /\ UNCHANGED <<liveDoc, clone, docI>>
  /\ UNCHANGED <<startDoc, docSvg, docCanvas>>
  /\ UNCHANGED <<docCreated, docRevoked>>
  /\ UNCHANGED notDocVars

\* querySelectorAll(tag).forEach(el => el.remove()) on a child list.
RECURSIVE Without(_, _)
Without(children, tag) ==
  IF children = <<>> THEN <<>>
  ELSE IF Head(children).tag = tag THEN Without(Tail(children), tag)
  ELSE <<Head(children)>> \o Without(Tail(children), tag)

\* clone.querySelectorAll('script').forEach(el => el.remove())
StripScripts ==
  /\ docPc = "scripts"
  /\ clone' = [clone EXCEPT !.children = Without(clone.children, "script")]
  /\ docPc' = "iframes"
  /\ UNCHANGED <<liveDoc, startDoc, docI, docSvg, docCanvas>>
  /\ UNCHANGED <<docCreated, docRevoked>>
  /\ UNCHANGED notDocVars

\* clone.querySelectorAll('iframe').forEach(el => el.remove())
StripIframes ==
  /\ docPc = "iframes"
  /\ clone' = [clone EXCEPT !.children = Without(clone.children, "iframe")]
  /\ docPc' = "svg"
  /\ UNCHANGED <<liveDoc, startDoc, docI, docSvg, docCanvas>>
  /\ UNCHANGED <<docCreated, docRevoked>>
  /\ UNCHANGED notDocVars

\* What becomes of the image of the SVG: it loads and is drawn, it loads and
\* ctx.drawImage throws, or it fails to load.
ImageOutcomes == {"renders", "draw throws", "fails"}

\* The clone is serialised into an SVG blob, URL.createObjectURL makes its
\* URL and img.src = url starts the load.
DrawSvg ==
  /\ docPc = "svg"
  /\ docCreated' = docCreated + 1
  /\ docPc' = "image"
  /\ UNCHANGED <<liveDoc, startDoc, clone, docI, docSvg, docCanvas,
                 docRevoked>>
  /\ UNCHANGED notDocVars

\* An onload handler whose catch block rejects without revoking.
ImageOnloadKeepsUrl ==
  /\ docPc = "image"
  /\ docSvg \in {"renders", "draw throws"}
  /\ IF docSvg = "renders"
       THEN /\ docCanvas' = docCanvas \cup {"svg"}
            /\ docRevoked' = docRevoked + 1
            /\ docPc' = "composite"
       ELSE /\ docPc' = "fallback"
            /\ UNCHANGED <<docCanvas, docRevoked>>
  /\ UNCHANGED <<liveDoc, startDoc, clone, docI, docSvg, docCreated>>
  /\ UNCHANGED notDocVars

\* img.onload: drawImage, revokeObjectURL and resolve, or, when drawImage
\* throws, revokeObjectURL and reject, which sends capturePageAsImage to its
\* fallback.
ImageOnload ==
  /\ docPc = "image"
  /\ docSvg \in {"renders", "draw throws"}
  /\ IF docSvg = "renders"
       THEN /\ docCanvas' = docCanvas \cup {"svg"}
            /\ docRevoked' = docRevoked + 1
            /\ docPc' = "composite"
       ELSE /\ docRevoked' = docRevoked + 1
            /\ docPc' = "fallback"
            /\ UNCHANGED docCanvas
  /\ UNCHANGED <<liveDoc, startDoc, clone, docI, docSvg, docCreated>>
  /\ UNCHANGED notDocVars

\* img.onerror: revokeObjectURL and reject.
ImageOnerror ==
  /\ docPc = "image"
  /\ docSvg = "fails"
  /\ docRevoked' = docRevoked + 1
  /\ docPc' = "fallback"
  /\ UNCHANGED <<liveDoc, startDoc, clone, docI, docSvg, docCanvas,
                 docCreated>>
  /\ UNCHANGED notDocVars

\* renderSimplifiedSnapshot reads the live elements and draws on the canvas.
DrawSnapshot ==
  /\ docPc = "fallback"
  /\ docCanvas' = docCanvas \cup {"snapshot"}
  /\ docPc' = "composite"
  /\ UNCHANGED <<liveDoc, startDoc, clone, docI, docSvg>>
  /\ UNCHANGED <<docCreated, docRevoked>>
  /\ UNCHANGED notDocVars

HasTag(doc, tag) == \E i \in 1..Len(doc.children) : doc.children[i].tag = tag

\* compositeIframeContent reads document.querySelectorAll('iframe') and
\* draws what the iframes answer.
DrawIframes ==
  /\ docPc = "composite"
  /\ docCanvas' = IF HasTag(liveDoc, "iframe")
                    THEN docCanvas \cup {"iframes"} ELSE docCanvas
  /\ docPc' = "done"
  /\ UNCHANGED <<liveDoc, startDoc, clone, docI, docSvg>>
  /\ UNCHANGED <<docCreated, docRevoked>>
  /\ UNCHANGED notDocVars

DocNext ==
  \/ /\ docPc = "idle"
     /\ \E doc \in Bodies, svg \in ImageOutcomes : DocDeliver(doc, svg)
  \/ CloneBody
  \/ InlineStyles
  \/ StripScripts
  \/ StripIframes
  \/ DrawSvg
  \/ ImageOnload
  \/ ImageOnerror
  \/ DrawSnapshot
  \/ DrawIframes

(***************************************************************************)
(* Part 14: handleIframeRpcRequest for one call, with every message the     *)
(* window may get while the call lasts and after it: results of this call   *)
(* and of another one, and messages of other types. The timer fires at any  *)
(* moment once armed; what matters is its order against the messages.       *)
(***************************************************************************)
MaxMsgs == 2

\* The call of this part and another call whose messages reach the window.
ThisCall == 1
OtherCall == 2

IframeStates == {"present", "missing", "no window"}

MessageTypes == {"moss-rpc-result", "moss-rpc-call", "iframe-capture-result"}

WindowMessages == [type : MessageTypes, id : {RpcId(ThisCall), RpcId(OtherCall)}]

CallInit ==
  /\ ypc = "idle"
  /\ yiframe = "none"
  /\ ylistener = FALSE
  /\ ytimer = "off"
  /\ yposts = 0
  /\ ysent = 0
  /\ yinbox = <<>>
  /\ yhandled = <<>>
  /\ yresolved = Unresolved
  /\ yemitted = <<>>

\* The iframe-rpc event is delivered to the handler.
CallDeliver(iframe) ==
  /\ ypc = "idle"
  /\ yiframe' = iframe
  /\ ypc' = "start"
  /\ UNCHANGED <<ylistener, ytimer, yposts, ysent, yinbox, yhandled, yresolved,
                 yemitted>>
  /\ UNCHANGED notCallVars

\* A handler that registers its listener before it looks for the iframe.
CallNoIframeListening ==
  /\ ypc = "start"
  /\ yiframe # "present"
  /\ ylistener' = TRUE
  /\ yemitted' = Append(yemitted, RpcNoIframe)
  /\ ypc' = "done"
  /\ UNCHANGED <<yiframe, ytimer, yposts, ysent, yinbox, yhandled, yresolved>>
  /\ UNCHANGED notCallVars

\* if (!iframe?.contentWindow) { await emit('iframe-rpc-response',
\* {success: false, error: 'No iframe found'}); return; }
CallNoIframe ==
  /\ ypc = "start"
  /\ yiframe # "present"
  /\ yemitted' = Append(yemitted, RpcNoIframe)
  /\ ypc' = "done"
  /\ UNCHANGED <<yiframe, ylistener, ytimer, yposts, ysent, yinbox, yhandled,
                 yresolved>>
  /\ UNCHANGED notCallVars

\* The promise executor registers the listener and starts the timer; then
\* the call is posted to the iframe and the handler awaits the promise.
CallSetup ==
  /\ ypc = "start"
  /\ yiframe = "present"
  /\ ylistener' = TRUE
  /\ ytimer' = "armed"
  /\ yposts' = yposts + 1
  /\ ypc' = "await"
  /\ UNCHANGED <<yiframe, ysent, yinbox, yhandled, yresolved, yemitted>>
  /\ UNCHANGED notCallVars

\* A frame posts a message to the window. The id of this call is known to
\* a frame only once the call has been posted.
PostToWindow(m) ==
  /\ ysent < MaxMsgs
  /\ m.id = RpcId(ThisCall) => yposts > 0
  /\ ysent' = ysent + 1
  /\ yinbox' = Append(yinbox, m)
  /\ UNCHANGED <<ypc, yiframe, ylistener, ytimer, yposts, yhandled, yresolved,
                 yemitted>>
  /\ UNCHANGED notCallVars

\* resolve(value) settles the promise if it is still pending; the awaiting
\* handler then goes on to emit.
ResolveWith(value) ==
  IF yresolved = Unresolved
    THEN yresolved' = value /\ ypc' = "emit"
    ELSE UNCHANGED <<yresolved, ypc>>

\* A listener that takes a result whatever its id.
CallMessageAnyId ==
  /\ yinbox # <<>>
  /\ yinbox' = Tail(yinbox)
  /\ yhandled' = Append(yhandled, Head(yinbox))
  /\ IF ylistener /\ Head(yinbox).type = "moss-rpc-result"
       THEN ylistener' = FALSE /\ ResolveWith(RpcData(Head(yinbox).id))
       ELSE UNCHANGED <<ylistener, yresolved, ypc>>
  /\ UNCHANGED <<yiframe, ytimer, yposts, ysent, yemitted>>
  /\ UNCHANGED notCallVars

\* The window dispatches a message event: the listener, if registered and
\* if type and id match, removes itself and resolves with e.data.
CallMessage ==
  /\ yinbox # <<>>
  /\ yinbox' = Tail(yinbox)
  /\ yhandled' = Append(yhandled, Head(yinbox))
  /\ IF ylistener /\ ListenerMatches(ThisCall, Head(yinbox))
       THEN ylistener' = FALSE /\ ResolveWith(RpcData(Head(yinbox).id))
       ELSE UNCHANGED <<ylistener, yresolved, ypc>>
  /\ UNCHANGED <<yiframe, ytimer, yposts, ysent, yemitted>>
  /\ UNCHANGED notCallVars

\* setTimeout(() => { window.removeEventListener('message', handler);
\* resolve({error: 'Timeout after 5s'}) }, 5000); nothing clears the timer.
CallTimer ==
  /\ ytimer = "armed"
  /\ ytimer' = "fired"
  /\ ylistener' = FALSE
  /\ ResolveWith(RpcTimedOut)
  /\ UNCHANGED <<yiframe, yposts, ysent, yinbox, yhandled, yemitted>>
  /\ UNCHANGED notCallVars

\* const response = await responsePromise; await emit('iframe-rpc-response',
\* response)
CallEmit ==
  /\ ypc = "emit"
  /\ yemitted' = Append(yemitted, yresolved)
  /\ ypc' = "done"
  /\ UNCHANGED <<yiframe, ylistener, ytimer, yposts, ysent, yinbox, yhandled,
                 yresolved>>
  /\ UNCHANGED notCallVars

CallNext ==
  \/ /\ ypc = "idle"
     /\ \E iframe \in IframeStates : CallDeliver(iframe)
  \/ CallNoIframe
  \/ CallSetup
  \/ /\ ypc # "idle"
     /\ \E m \in WindowMessages : PostToWindow(m)
  \/ CallMessage
  \/ CallTimer
  \/ CallEmit

(***************************************************************************)
(* Part 15: captureIframeContent for one iframe, with every message the     *)
(* window may get during the call and after it. The deadline timer fires at *)
(* any moment while it is armed.                                            *)
(***************************************************************************)
\* The id of this call and the id of another capture.
ThisCapture == CaptureId(1)
OtherCapture == CaptureId(2)

\* event.data of the messages: data is a data URL or missing.
CaptureMessages ==
  [type : {"moss-capture-preview-result", "moss-rpc-result"},
   id : {ThisCapture, OtherCapture},
   success : BOOLEAN,
   data : {"jpeg data url", "none"}]

NotReturned == "not returned"

FrameInit ==
  /\ zpc = "idle"
  /\ zwindow = FALSE
  /\ zlistener = FALSE
  /\ ztimer = "off"
  /\ zposts = 0
  /\ zsent = 0
  /\ zinbox = <<>>
  /\ zhandled = <<>>
  /\ zresolves = <<>>
  /\ zreturn = NotReturned

\* compositeIframeContent calls captureIframeContent(iframe, ...).
FrameCall(hasWindow) ==
  /\ zpc = "idle"
  /\ zwindow' = hasWindow
  /\ zpc' = "call"
  /\ UNCHANGED <<zlistener, ztimer, zposts, zsent, zinbox, zhandled, zresolves,
                 zreturn>>
  /\ UNCHANGED notFrameVars

\* if (!iframe.contentWindow) return null
FrameNoWindow ==
  /\ zpc = "call"
  /\ ~zwindow
  /\ zreturn' = NullData
  /\ zpc' = "returned"
  /\ UNCHANGED <<zwindow, zlistener, ztimer, zposts, zsent, zinbox, zhandled,
                 zresolves>>
  /\ UNCHANGED notFrameVars

\* The promise executor: setTimeout, addEventListener, postMessage.
FrameSetup ==
  /\ zpc = "call"
  /\ zwindow
  /\ ztimer' = "armed"
  /\ zlistener' = TRUE
  /\ zposts' = zposts + 1
  /\ zpc' = "pending"
  /\ UNCHANGED <<zwindow, zsent, zinbox, zhandled, zresolves, zreturn>>
  /\ UNCHANGED notFrameVars

\* A frame posts a message to the window. The id of this call is known to
\* a frame only once the request has been posted.
FramePost(m) ==
  /\ zsent < MaxMsgs
  /\ m.id = ThisCapture => zposts > 0
  /\ zsent' = zsent + 1
  /\ zinbox' = Append(zinbox, m)
  /\ UNCHANGED <<zpc, zwindow, zlistener, ztimer, zposts, zhandled, zresolves,
                 zreturn>>
  /\ UNCHANGED notFrameVars

\* resolve(value): the first call settles the promise and the awaiting
\* caller gets the value; a later call changes nothing but is a call.
FrameResolve(value) ==
  /\ zresolves' = Append(zresolves, value)
  /\ IF zresolves = <<>>
       THEN zreturn' = value /\ zpc' = "returned"
       ELSE UNCHANGED <<zreturn, zpc>>

\* function handler(event): the two early returns
FrameAccepts(m) ==
  m.type = "moss-capture-preview-result" /\ m.id = ThisCapture

\* event.data.success && event.data.data ? resolve(data) : resolve(null)
FrameValue(m) ==
  IF m.success /\ m.data # "none" THEN m.data ELSE NullData

\* A handler that leaves the deadline timer running.
FrameHandlerKeepsTimer ==
  /\ zinbox # <<>>
  /\ zinbox' = Tail(zinbox)
  /\ zhandled' = Append(zhandled, Head(zinbox))
  /\ IF zlistener /\ FrameAccepts(Head(zinbox))
       THEN /\ zlistener' = FALSE
            /\ UNCHANGED ztimer
            /\ FrameResolve(FrameValue(Head(zinbox)))
       ELSE UNCHANGED <<zlistener, ztimer, zresolves, zreturn, zpc>>
  /\ UNCHANGED <<zwindow, zposts, zsent>>
  /\ UNCHANGED notFrameVars

\* The window dispatches a message event to the handler, if registered: a
\* matching message removes the listener, clears the timer and resolves.
FrameHandler ==
  /\ zinbox # <<>>
  /\ zinbox' = Tail(zinbox)
  /\ zhandled' = Append(zhandled, Head(zinbox))
  /\ IF zlistener /\ FrameAccepts(Head(zinbox))
       THEN /\ zlistener' = FALSE
            /\ ztimer' = IF ztimer = "armed" THEN "cleared" ELSE ztimer
            /\ FrameResolve(FrameValue(Head(zinbox)))
       ELSE UNCHANGED <<zlistener, ztimer, zresolves, zreturn, zpc>>
  /\ UNCHANGED <<zwindow, zposts, zsent>>
  /\ UNCHANGED notFrameVars

\* The deadline: removeEventListener and resolve(null).
FrameDeadline ==
  /\ ztimer = "armed"
  /\ ztimer' = "fired"
  /\ zlistener' = FALSE
  /\ FrameResolve(NullData)
  /\ UNCHANGED <<zwindow, zposts, zsent, zinbox, zhandled>>
  /\ UNCHANGED notFrameVars

FrameNext ==
  \/ /\ zpc = "idle"
     /\ \E hasWindow \in BOOLEAN : FrameCall(hasWindow)
  \/ FrameNoWindow
  \/ FrameSetup
  \/ /\ zpc # "idle"
     /\ \E m \in CaptureMessages : FramePost(m)
  \/ FrameHandler
  \/ FrameDeadline

(***************************************************************************)
(* Part 16: the manage_local_storage tool in front of the handler of Part   *)
(* 9: the checks of the tool, the command it sends, and the result it       *)
(* returns. The host forwards the command as a get-local-storage event.     *)
(***************************************************************************)
\* action: z.enum(["get", "set", "remove", "clear", "keys"])
ToolActions == {"get", "set", "remove", "clear", "keys"}

\* key and value: z.string().optional()
ToolKeys == PayloadKeys \cup {Undefined}
ToolValues == {"v", "", Undefined}

NoStorageArgs == [action |-> "none", key |-> Undefined, value |-> Undefined]
NoStorageCommand == [action |-> "none", key |-> Undefined, value |-> Undefined]
NoToolResult == [isError |-> FALSE, text |-> "none"]

StorageToolInit ==
  /\ margs = NoStorageArgs
  /\ mstage = "idle"
  /\ msent = NoStorageCommand
  /\ mresult = NoToolResult

\* A client calls manage_local_storage; the schema has accepted the
\* arguments.
StorageToolCall(action, key, value) ==
  /\ mstage \in {"idle", "returned"}
  /\ margs' = [action |-> action, key |-> key, value |-> value]
  /\ mstage' = "called"
  /\ msent' = NoStorageCommand
  /\ mresult' = NoToolResult
  /\ UNCHANGED <<storage, sreq, sresp>>
  /\ UNCHANGED notStorageVars

\* !key: undefined and the empty string
NoKey(key) == key \in {Undefined, ""}

\* Checks that ask for a key of set only.
ToolErrorSetOnly(a) ==
  IF a.action = "set" /\ NoKey(a.key)
    THEN "The key parameter is required for the action"
  ELSE IF a.action = "set" /\ a.value = Undefined
    THEN "The value parameter is required for the 'set' action"
  ELSE "none"

\* The error the checks of the tool end with, or "none".
ToolError(a) ==
  IF a.action \in {"set", "remove"} /\ NoKey(a.key)
    THEN "The key parameter is required for the action"
  ELSE IF a.action = "set" /\ a.value = Undefined
    THEN "The value parameter is required for the 'set' action"
  ELSE "none"

\* The checks of the tool: an error result, or sendCommand.
StorageToolValidate ==
  /\ mstage = "called"
  /\ IF ToolError(margs) # "none"
       THEN /\ mresult' = [isError |-> TRUE, text |-> ToolError(margs)]
            /\ mstage' = "returned"
            /\ UNCHANGED msent
       ELSE /\ msent' = margs
            /\ mstage' = "sent"
            /\ UNCHANGED mresult
  /\ UNCHANGED <<margs, storage, sreq, sresp>>
  /\ UNCHANGED notStorageVars

\* The host forwards the command to the webview, whose handler performs it
\* and answers.
StorageToolForward ==
  /\ mstage = "sent"
  /\ LET done == Perform(msent.action, Processed(msent.key),
                         Processed(msent.value), storage)
     IN /\ storage' = done.st
        /\ sreq' = msent
        /\ sresp' = done.resp
  /\ mstage' = "answered"
  /\ UNCHANGED <<margs, msent, mresult>>
  /\ UNCHANGED notStorageVars

\* sendCommand resolves with the data of a success response and rejects on
\* a failure response; the catch block turns that into an error result.
StorageToolResult ==
  /\ mstage = "answered"
  /\ mresult' = IF sresp.success
                  THEN [isError |-> FALSE, text |-> "result"]
                  ELSE [isError |-> TRUE,
                        text |-> "Failed to manage localStorage"]
  /\ mstage' = "returned"
  /\ UNCHANGED <<margs, msent, storage, sreq, sresp>>
  /\ UNCHANGED notStorageVars

StorageToolNext ==
  \/ /\ mstage \in {"idle", "returned"}
     /\ \E action \in ToolActions, key \in ToolKeys, value \in ToolValues :
          StorageToolCall(action, key, value)
  \/ StorageToolValidate
  \/ StorageToolForward
  \/ StorageToolResult

Init ==
  /\ BridgeInit /\ HandlerInit /\ RpcInit /\ DispatchInit /\ TypingInit
  /\ LookupInit /\ CaptureInit /\ ScaleInit
  /\ StorageInit /\ InjectInit /\ ParamInit /\ ExecInit
  /\ DocInit /\ CallInit /\ FrameInit /\ StorageToolInit
Next == BridgeNext
Spec == Init /\ [][Next]_vars
SpecHandlers == Init /\ [][HandlerNext]_vars
SpecRpc == Init /\ [][RpcNext]_vars
SpecDispatch == Init /\ [][DispatchNext]_vars
SpecTyping == Init /\ [][TypingNext]_vars
SpecLookup == Init /\ [][LookupNext]_vars
SpecCapture == Init /\ [][CaptureNext]_vars
SpecScale == Init /\ [][ScaleNext]_vars
SpecStorage == Init /\ [][StorageNext]_vars
SpecInject == Init /\ [][InjectNext]_vars
SpecParams == Init /\ [][ParamNext]_vars
SpecExec == Init /\ [][ExecNext]_vars
SpecDoc == Init /\ [][DocNext]_vars
SpecCall == Init /\ [][CallNext]_vars
SpecFrame == Init /\ [][FrameNext]_vars
SpecSerial == Init /\ [][SerialNext]_vars
SpecStorageTool == Init /\ [][StorageToolNext]_vars

(***************************************************************************)
(* Claims about the bridge, checked under Spec.                            *)
(***************************************************************************)
Forwarded(r) == r <= nreq
TimedOut(r) == Len(outcomes[r]) > 0 /\ outcomes[r][1].kind = "Timeout"
Responded(r) == Len(outcomes[r]) > 0 /\ outcomes[r][1].kind = "response"
\* The response of the handler of o was handed to the caller of p.
DeliveredTo(o, p) ==
  \E i \in 1..Len(outcomes[p]) :
    outcomes[p][i].kind = "response" /\ outcomes[p][i].from = o
\* The handler of r has emitted its response event.
Emitted(r) == \/ ResponseOf(r) \in respq \cup dropped
              \/ \E p \in Requests : DeliveredTo(r, p)

\* C1: every forwarded request gets at most one terminal outcome, a pending
\* request has none yet and keeps a live deadline timer, and a request whose
\* entry was resolved or timed out has exactly one: a response or a Timeout,
\* never both, also when the response and the expiry race for the entry.
C1_ExactlyOneOutcome ==
  \A r \in Requests :
    /\ Len(outcomes[r]) <= 1
    /\ r \in pending => /\ outcomes[r] = <<>>
                        /\ timer[r] \in {"armed", "fired"}
    /\ Forwarded(r) /\ r \notin pending /\ r \notin cancelled
         => Len(outcomes[r]) = 1

\* The response won the entry while the expiry of the same request was
\* already queued.
C1_RaceWitness ==
  \E r \in Requests : timer[r] = "fired" /\ Responded(r) /\ Len(outcomes[r]) = 1

\* C3: a request never waits past its deadline, and a Timeout is given
\* exactly when the deadline expires and no response resolved the entry.
C3_TimeoutAtDeadline ==
  \A r \in Requests :
    /\ r \in pending => waited[r] <= req[r].timeout
    /\ TimedOut(r) => /\ outcomes[r][1].at = req[r].timeout
                      /\ ~Responded(r)

\* A request timed out while its handler had not emitted any response.
C3_TimeoutWitness ==
  \E r \in Requests : TimedOut(r) /\ handler[r] = "running" /\ ~Emitted(r)

\* C4: a response event that arrives after its request timed out is dropped
\* and handed to no caller.
C4_LateResponseDropped ==
  [][\A e \in respq :
       (e \notin respq' /\ TimedOut(e.origin))
         => (e \in dropped' /\ outcomes' = outcomes)]_vars

\* C5: the bridge hands a response only to a call of the command whose
\* handler emitted it (it correlates on window label and command name), and a
\* response event in flight carries its event name and no call id.
C5_CorrelatesOnCommandOnly ==
  /\ \A o, p \in Requests : DeliveredTo(o, p) => req[o].cmd = req[p].cmd
  /\ \A e \in respq : e.event = ResponseEvent(req[e.origin].cmd)

\* Two calls of one command were in flight together and the caller of one
\* received the response produced for the other, which still waits.
C5_CrossDeliveryWitness ==
  \E o, p \in Requests :
    /\ o # p
    /\ req[o].cmd = req[p].cmd
    /\ DeliveredTo(o, p)
    /\ o \in pending

C10_TeardownCancelsOwnOnly ==
  [][\A c \in Conns :
       (connected[c] /\ ~connected'[c]) =>
         /\ pending' = {r \in pending : req[r].conn # c}
         /\ cancelled' = cancelled \cup {r \in pending : req[r].conn = c}
         /\ \A r \in cancelled' : outcomes'[r] = <<>>
         /\ outcomes' = outcomes
         /\ handler' = handler
         /\ respq' = respq]_vars

\* One connection is down with a cancelled request whose handler still runs,
\* while a request of the other connection is still pending.
C10_TeardownWitness ==
  \E r \in cancelled, p \in pending :
    /\ ~connected[req[r].conn]
    /\ connected[req[p].conn]
    /\ handler[r] = "running"

\* C12: the pending table holds an entry for a request exactly while the
\* request is in flight (forwarded, not settled by a response or a Timeout,
\* not cancelled by the teardown of its connection); an entry has a live
\* deadline timer and a request without an entry has no running timer; a
\* disconnected connection has no entry.
C12_EntryExactlyWhileInFlight ==
  \A r \in Requests :
    /\ r \in pending <=> /\ Forwarded(r)
                          /\ outcomes[r] = <<>>
                          /\ r \notin cancelled
    /\ r \in pending => /\ timer[r] \in {"armed", "fired"}
                        /\ connected[req[r].conn]
    /\ r \notin pending => timer[r] # "armed"

\* One request was settled by its response and its timer is gone, another
\* was cancelled with its connection, and the table is empty.
C12_LifecycleWitness ==
  \E r, p \in Requests :
    /\ Responded(r) /\ timer[r] = "off"
    /\ p \in cancelled /\ ~connected[req[p].conn] /\ timer[p] = "off"
    /\ pending = {}

IsSuccessFalseError(p) ==
  p.kind = "object" /\ p.success = "false" /\ p.error = "string"

C6_OwnReplyOnly ==
  \A c \in RpcCalls : rgot[c].from \in {0, c}

\* C7: a call is told of a timeout (by the host's Timeout or by the
\* handler's timeout report) only once the timeout of the call, the
\* caller's or the default of 10, has elapsed.
C7_TimeoutAfterPerCallPeriod ==
  \A c \in RpcCalls :
    rgot[c].kind \in {"Timeout", "timeout report"} => rgot[c].at >= rtmo[c]

(***************************************************************************)
(* Claims about the dispatcher, checked under SpecDispatch.                *)
(***************************************************************************)
\* C11: when the listener frames a request with an unrecognized command
\* name, or a delegated one whose window does not exist at that moment, the
\* only effect is one error envelope (UnknownCommand or WindowNotFound) on
\* the connection of the request, keyed to the id of the request: the
\* listener keeps listening, no connection is closed and no in-flight
\* request is disturbed.
C11_UnrouteableAnswered ==
  [][dcount' = dcount + 1 =>
       LET q == dlast'
           unknown == q.command \notin KnownCommands
           nowindow == /\ q.command \in DelegatedCommands
                       /\ Target(q) \notin dwindows
       IN  unknown \/ nowindow =>
             /\ dout' = dout \cup
                  {[conn |-> q.conn, id |-> q.id, success |-> FALSE,
                    body |-> IF unknown THEN "UnknownCommand"
                             ELSE "WindowNotFound"]}
             /\ dlistening'
             /\ dopen' = dopen
             /\ dinflight' = dinflight]_vars

\* A request for a window that does not exist was answered WindowNotFound on
\* its own connection while a request of the other connection, carrying the
\* same id, is still in flight.
C11_UnrouteableWitness ==
  \E e \in dout, f \in dinflight :
    /\ e.body = "WindowNotFound"
    /\ ~e.success
    /\ f.conn # e.conn
    /\ f.id = e.id
    /\ dopen[e.conn] /\ dopen[f.conn]
    /\ dlistening

(***************************************************************************)
(* Claims about text injection, checked under SpecTyping.                  *)
(***************************************************************************)
\* C13: between two mutations of the element made by one handler invocation
\* there is no mutation made by another invocation.
C13_MutationsNotInterleaved ==
  \A i, j, k \in 1..Len(tlog) :
    (i < k /\ k < j /\ tlog[i] = tlog[j]) => tlog[k] = tlog[i]

\* C14 as claimed: when the success response is emitted, element.value is
\* the injected text, for every text.
C14_ValueEqualsText ==
  \A h \in Typists : tpc[h] = "done" => tresp[h].value = tresp[h].text

HasChar(t, cs) == \E n \in 1..Len(t) : t[n] \in cs

\* C14 as amended: when the success response is emitted, element.value is
\* the injected text, for every text without a line break in an <input> and
\* every text without a carriage return in a <textarea>, whatever the element
\* held before and whatever another invocation typed into it meanwhile.
C14_ValueEqualsTextWithoutLineBreaks ==
  \A h \in Typists :
    (/\ tpc[h] = "done"
     /\ \/ ekind = "input" /\ ~HasChar(ttext[h], {"LF", "CR"})
        \/ ekind = "textarea" /\ ~HasChar(ttext[h], {"CR"}))
      => /\ tresp[h].success
         /\ tresp[h].value = ttext[h]

\* An invocation emitted success for a non-empty text although another
\* invocation had put a different value into the element after its last
\* character: the final check restored the text.
C14_RoundTripWitness ==
  \E h, g \in Typists :
    /\ h # g
    /\ tpc[h] = "done"
    /\ ttext[h] # <<>>
    /\ ttext[g] # ttext[h]
    /\ tresp[h].value = ttext[h]
    /\ \E i, k, j \in 1..Len(tlog) :
         i < k /\ k < j /\ tlog[i] = h /\ tlog[k] = g /\ tlog[j] = h

(***************************************************************************)
(* Claims about element lookup, checked under SpecLookup.                  *)
(***************************************************************************)
\* Element i contains the text q: in its text content, its placeholder, its
\* title or its aria-label.
ContainsText(d, i, q) ==
  \/ Includes(TextContent(d, i), q)
  \/ IsInput(d[i]) /\ Includes(d[i].placeholder, q)
  \/ d[i].title # NoAttr /\ Includes(d[i].title, q)
  \/ d[i].aria # NoAttr /\ Includes(d[i].aria, q)

\* C15: when pass 1 of the lookup by text finds nothing and one element of
\* the document contains the query as a substring, the lookup answers with
\* that element and not with ElementNotFound.
C15_PartialMatchReturned ==
  (lpc = "done" /\ ltype = "text" /\ PassOne(ldoc, lvalue) = Null) =>
    \A e \in 1..Len(ldoc) :
      (/\ ContainsText(ldoc, e, lvalue)
       /\ \A f \in 1..Len(ldoc) : f # e => ~ContainsText(ldoc, f, lvalue))
        => lresp.success /\ lresp.element = e

\* C16: a lookup by id, in either handler, answers with the one element
\* that carries the id, or, when no element carries it, with an
\* element-not-found failure whose message names the id.
C16_LookupById ==
  (lpc = "done" /\ ltype = "id") =>
    LET carriers == {i \in 1..Len(ldoc) :
                      ldoc[i].id # "" /\ ldoc[i].id = lvalue}
    IN  IF carriers # {}
          THEN /\ lresp.success
               /\ carriers = {lresp.element}
          ELSE /\ ~lresp.success
               /\ lresp.kind = "Element not found"
               /\ \A k \in 1..Len(lresp.debug) : lresp.debug[k].value = lvalue
               /\ \E k \in 1..Len(lresp.debug) :
                    lresp.debug[k].msg = "No element found with id"

\* The lookup found the id on the second element of a document whose first
\* element carries another id.
C16_SecondElementWitness ==
  /\ lpc = "done"
  /\ ltype = "id"
  /\ Len(ldoc) = 2
  /\ ldoc[1].id # ""
  /\ ldoc[2].id = lvalue
  /\ lresp.success
  /\ lresp.element = 2

\* C17: a lookup by class or by tag, in either handler, with no match
\* answers element-not-found with a zero-count diagnostic; with one or more
\* matches it goes on with the first match in document order and answers
\* success, and with several matches debugInfo notes their number.
C17_FirstOfClassOrTag ==
  (lpc = "done" /\ ltype \in {"class", "tag"}) =>
    LET matches == IF ltype = "class"
                     THEN GetElementsByClassName(ldoc, lvalue)
                     ELSE GetElementsByTagName(ldoc, lvalue)
    IN  /\ matches = {} =>
              /\ ~lresp.success
              /\ lresp.kind = "Element not found"
              /\ \E k \in 1..Len(lresp.debug) :
                   /\ lresp.debug[k].n = 0
                   /\ lresp.debug[k].msg = "No elements found with " \o ltype
                                             \o " (total matching: 0)"
        /\ matches # {} =>
              /\ lresp.success
              /\ lresp.element \in matches
              /\ \A j \in matches : lresp.element <= j
        /\ Cardinality(matches) > 1 =>
              \E k \in 1..Len(ldebug) : ldebug[k].n = Cardinality(matches)

\* Two elements have the class; the handler went on with the first of them,
\* which is not the first element of the document.
C17_SeveralMatchesWitness ==
  /\ lpc = "done"
  /\ ltype = "class"
  /\ Len(ldoc) = 3
  /\ GetElementsByClassName(ldoc, lvalue) = {2, 3}
  /\ lresp.success
  /\ lresp.element = 2

(***************************************************************************)
(* Claims about the screenshot capture.                                     *)
(***************************************************************************)
\* The stages a capture has run once compositing has begun.
StagesOf(svg) ==
  IF svg \in SvgRendered THEN <<"svg", "composite">>
  ELSE <<"svg", "fallback", "composite">>

\* C18: in every screenshot capture the DOM-walk fallback runs if and only
\* if the SVG rasterization fails; compositing runs exactly once afterwards
\* in both cases; and nothing in the fallback or in compositing starts
\* another strategy: the stages that ran are always a prefix of
\* svg, composite (SVG rendered) or of svg, fallback, composite (SVG failed),
\* and the whole of it from the moment compositing has begun.
C18_FallbackIffSvgFails ==
  /\ \E n \in 0..Len(StagesOf(csvg)) : cstages = SubSeq(StagesOf(csvg), 1, n)
  /\ cpc = "fallback" => cstages = <<"svg">> /\ csvg \notin SvgRendered
  /\ cpc = "composite" => Append(cstages, "composite") = StagesOf(csvg)
  /\ (cpc \in {"loop", "emit"} \/ (cpc \in {"catch", "done"} /\ cctx))
       => cstages = StagesOf(csvg)

\* A capture whose SVG rasterization failed has run the fallback, then the
\* compositing, waited for an iframe, and answered with success.
C18_FallbackThenCompositeWitness ==
  /\ cpc = "done"
  /\ csvg = "load error"
  /\ cstages = <<"svg", "fallback", "composite">>
  /\ ctime > 0
  /\ cresp.success

\* C19: an iframe that never replies is left out of the image, and the
\* capture has waited for iframes no longer than one iframe deadline when
\* it completes, however many iframes the document has.
C19_OneDeadlineForAllIframes ==
  cpc = "done" =>
    /\ \A i \in cdrawn : cframes[i] # "silent"
    /\ ctime <= CaptureDeadline

\* C20: a nested frame is drawn only for a reply with the matching id that
\* reports success and carries image data, and whatever the iframes do, a
\* capture that nothing but iframes could disturb answers with success.
C20_IframeNeverFailsCapture ==
  /\ \A i \in cdrawn : cframes[i] \in {"image", "foreign image"}
  /\ (cpc = "done" /\ cctx /\ ctainted \subseteq {"iframe"}) => cresp.success

\* C21: whenever the SVG foreignObject render has tainted the canvas, the
\* DOM-walking renderer renderSimplifiedSnapshot runs in that capture: once
\* compositing has begun, a canvas tainted by the SVG stage means that the
\* fallback is among the stages that ran.
C21_TaintActivatesFallback ==
  (cpc \in {"loop", "emit", "catch", "done"} /\ "svg" \in ctainted)
    => \E n \in 1..Len(cstages) : cstages[n] = "fallback"

(***************************************************************************)
(* Claims about the size of the screenshot.                                 *)
(***************************************************************************)
\* C22: with viewport width W, height H and max width M: if W > M the
\* canvas is M wide and its height is H * M / W rounded to a pixel; if
\* W <= M the canvas is W wide and H high, so the image is never upscaled.
C22_ScaledToMaxWidth ==
  canvasWidth # NotSized =>
    IF viewportWidth > maxWidth
      THEN /\ canvasWidth = maxWidth
           /\ 2 * canvasHeight * viewportWidth
                <= 2 * viewportHeight * maxWidth + viewportWidth
           /\ 2 * canvasHeight * viewportWidth
                >= 2 * viewportHeight * maxWidth - viewportWidth
           /\ canvasHeight <= viewportHeight
      ELSE /\ canvasWidth = viewportWidth
           /\ canvasHeight = viewportHeight

\* A viewport wider than the maximum, scaled by a factor that does not give
\* a whole number of pixels for the height.
C22_ScaledDownWitness ==
  /\ viewportWidth = 3
  /\ maxWidth = 2
  /\ viewportHeight = 2
  /\ canvasWidth = 2
  /\ canvasHeight = 1

(***************************************************************************)
(* Claims about local storage.                                              *)
(***************************************************************************)
\* C23: for every non-empty string key k and every string value v, a
\* set(k, v) followed by get(k) returns exactly v: a get handled right
\* after a successful set of the same key answers with the value that was
\* set.
C23_SetThenGet ==
  [][(/\ sreq.action = "set"
      /\ sresp.success
      /\ sreq'.action = "get"
      /\ sreq'.key = sreq.key)
     => (sresp'.success /\ sresp'.data = sreq.value)]_vars

(***************************************************************************)
(* Claims about text injection into elements of every kind.                 *)
(***************************************************************************)
\* The positions of the log with the given call in one of the given stages.
LogPositions(ev, stages) ==
  {n \in 1..Len(jlog) : jlog[n].ev = ev /\ jlog[n].at \in stages}

\* C24: when the target is neither a native input/textarea nor
\* contentEditable, or when a typing path throws, the handler assigns the
\* text directly and dispatches exactly one input event for it.
C24_FallbackAssignsAndOneInput ==
  (jpc = "done" /\ (jkind = "other" \/ jcaught)) =>
    /\ LogPositions("assign", {"direct", "fallback"}) # {}
    /\ Cardinality(LogPositions("input", {"direct", "fallback"})) = 1

\* C25: in the Lexical and in the Slate path, for every character of the
\* text a beforeinput event is dispatched and the character is inserted by
\* execCommand('insertText'), never by a direct change of the DOM.
C25_BeforeInputAndInsertText ==
  (jkind \in {"lexical", "slate"} /\ jpc \in {"emit", "done"} /\ ~jcaught) =>
    /\ \A c \in 1..Len(jtext) :
         /\ \E n \in LogPositions("beforeinput", {"type"}) : jlog[n].n = c
         /\ \E n \in LogPositions("insertText", {"type"}) : jlog[n].n = c
    /\ LogPositions("insertNode", {"type"}) = {}
    /\ LogPositions("set", {"type"}) = {}

\* The calls of the typing loop, in order.
TypeCalls == SelectSeq(jlog, LAMBDA e : e.at = "type")

\* C30: while typing into a native input/textarea, every character c gets
\* keydown, value set to the first c characters, input, keyup, in this
\* order, and the keydown of the next character comes after; the change
\* event follows the last keyup; and the success response is emitted after
\* all of these.
C30_KeystrokeOrder ==
  jkind \in NativeKinds =>
    /\ Len(TypeCalls) = 4 * ji
    /\ \A c \in 1..ji :
         /\ TypeCalls[4 * c - 3] = Ev("keydown", "type", c)
         /\ TypeCalls[4 * c - 2] = Ev("set", "type", c)
         /\ TypeCalls[4 * c - 1] = Ev("input", "type", c)
         /\ TypeCalls[4 * c] = Ev("keyup", "type", c)
    /\ (jpc = "type" /\ ji > 0)
         => jcontent = SetValue(jkind, SubSeq(jtext, 1, ji))
    /\ (jpc \in {"check", "emit", "done"} /\ ~jcaught) =>
         /\ ji = Len(jtext)
         /\ \E m \in LogPositions("change", {"finish"}) :
              \A n \in 1..Len(jlog) : jlog[n].at = "type" => n < m
    /\ jresp.success =>
         /\ jlog[Len(jlog)] = Ev("emit", "handler", 0)
         /\ LogPositions("emit", {"handler"}) = {Len(jlog)}

\* Two characters were typed into an <input> and the response is out.
C30_TwoCharactersWitness ==
  /\ jpc = "done"
  /\ jkind = "input"
  /\ jtext = <<"a", "a">>
  /\ ~jcaught
  /\ jresp.success

(***************************************************************************)
(* Claims about DOM retrieval.                                              *)
(***************************************************************************)
\* The got-dom-content handler read the document without an exception and
\* its response is out.
DomAnswered ==
  /\ hcmd = "got-dom-content"
  /\ hinput \in {"complete", "interactive", "loading"}
  /\ ~hraised
  /\ Len(hemitted) = 1

\* C26 as stated: the payload of the DOM-retrieval response is exactly the
\* outerHTML of the document element, whatever the load state of the
\* document.
C26_OuterHtmlInEveryLoadState ==
  DomAnswered => hemitted[1].payload = DomHtml

\* C26: the payload of the DOM-retrieval response is exactly the outerHTML
\* of the document element when the load state of the document is
\* 'complete' or 'interactive', and the empty string while the document is
\* loading.
C26_OuterHtmlWhenLoaded ==
  DomAnswered =>
    hemitted[1].payload =
      IF hinput = "loading" THEN EmptyString ELSE DomHtml

\* The DOM of a document that is interactive, not yet complete, was sent.
C26_InteractiveWitness ==
  /\ DomAnswered
  /\ hinput = "interactive"
  /\ hpc = "done"
  /\ hemitted[1].payload = DomHtml

(***************************************************************************)
(* Claims about the parameters of capture_screenshot.                       *)
(***************************************************************************)
\* The value is the one supplied, or the default; the default if omitted.
SuppliedOrDefault(value, p, dflt) ==
  /\ value \in {p.v, dflt}
  /\ ~p.given => value = dflt

\* C27: capture_screenshot rejects a quality outside 1..100 before a command
\* is sent and accepts every quality within; every omitted parameter takes
\* its default ('main', 85, 1920) in the tool and in the in-webview handler;
\* and the window label, quality and max width that reach the capture are
\* the supplied ones or these defaults.
C27_ValidatedAndDefaulted ==
  /\ pstage = "rejected" =>
       /\ pargs.quality.given
       /\ pargs.quality.v < MinQuality \/ pargs.quality.v > MaxQuality
       /\ psent = NoCommand
  /\ pstage \in {"parsed", "sent"} => QualityValid(pargs.quality)
  /\ pstage = "sent" =>
       /\ SuppliedOrDefault(psent.window_label, pargs.window_label,
                            DefaultWindowLabel)
       /\ SuppliedOrDefault(psent.quality, pargs.quality, DefaultQuality)
       /\ SuppliedOrDefault(psent.max_width, pargs.max_width, DefaultMaxWidth)
  /\ pstage = "capturing" =>
       /\ SuppliedOrDefault(pcapture.quality, ppayload.quality, DefaultQuality)
       /\ SuppliedOrDefault(pcapture.maxWidth, ppayload.maxWidth,
                            DefaultMaxWidth)
       /\ psent # NoCommand =>
            /\ pcapture.window_label = psent.window_label
            /\ pcapture.quality = psent.quality
            /\ pcapture.maxWidth = psent.max_width
            /\ pcapture.quality >= MinQuality
            /\ pcapture.quality <= MaxQuality

\* A call without arguments reached the capture with the three defaults.
C27_AllDefaultsWitness ==
  /\ pstage = "capturing"
  /\ pargs = NoArgs
  /\ psent # NoCommand
  /\ pcapture = [window_label |-> "main", quality |-> DefaultQuality,
                 maxWidth |-> DefaultMaxWidth]

(***************************************************************************)
(* Claims about execute-js.                                                 *)
(***************************************************************************)
\* C28: for every value the executed code evaluates to, the execute-js
\* success response carries a result that is a string and a type that is
\* the typeof string: 'undefined' for undefined, 'null' for null, the JSON
\* text for objects and arrays, and String(value) for any other value.
C28_ResultIsAString ==
  xpc = "emitted" =>
    /\ xresp.type = xresult.type
    /\ xresp.result.isString
    /\ xresp.result.s =
         (CASE xresult.kind = "undefined" -> "undefined"
            [] xresult.kind = "null" -> "null"
            [] xresult.kind = "object" -> xresult.text
            [] OTHER -> xresult.str)

(***************************************************************************)
(* Claims about the document during a capture.                              *)
(***************************************************************************)
\* C29: a capture leaves the live document as it found it, by either
\* rendering strategy and with or without iframes: at every step and when
\* it completes, the live tree and the inline styles of its elements are
\* those of the start; the stripping of script and iframe elements and the
\* inlining of styles show in the clone only.
C29_LiveDocumentUnchanged ==
  /\ liveDoc = startDoc
  /\ docPc = "done" =>
       /\ ~HasTag(clone, "script")
       /\ ~HasTag(clone, "iframe")
       /\ ImportantStyles \subseteq clone.style
       /\ \A i \in 1..Len(clone.children) :
            ImportantStyles \subseteq clone.children[i].style

\* A capture by the fallback strategy of a document with a script and an
\* iframe has completed: both are gone from the clone and still in the page.
C29_FallbackWithIframeWitness ==
  /\ docPc = "done"
  /\ docCanvas = {"snapshot", "iframes"}
  /\ HasTag(liveDoc, "script")
  /\ HasTag(liveDoc, "iframe")
  /\ liveDoc.style = {}
  /\ clone.children = <<>>

\* Element i matches the text q exactly: its trimmed text content, its
\* placeholder, its title or its aria-label equals q.
ExactMatch(d, i, q) ==
  \/ Trim(TextContent(d, i)) = q
  \/ IsInput(d[i]) /\ d[i].placeholder = q
  \/ d[i].title = q
  \/ d[i].aria = q

\* C31: the lookup by text is a two-pass search in document order: the
\* element it answers with is the first element that matches the query
\* exactly when some element of the document does, even if an element that
\* only contains the query comes earlier, and the first element that
\* contains the query when none matches exactly.
C31_ExactBeforePartial ==
  (lpc = "done" /\ ltype = "text" /\ lresp.success) =>
    LET exact == {i \in 1..Len(ldoc) : ExactMatch(ldoc, i, lvalue)}
        partial == {i \in 1..Len(ldoc) : ContainsText(ldoc, i, lvalue)}
    IN  lresp.element = IF exact # {} THEN FirstOf(exact) ELSE FirstOf(partial)

(***************************************************************************)
(* Claims about one iframe-rpc invocation, checked under SpecCall.         *)
(***************************************************************************)
\* The window dispatches a message in this step.
Dispatches == Len(yhandled') = Len(yhandled) + 1

\* C32: the first moss-rpc-result message with the id of the call settles
\* the call; a message of another type or id is ignored; the listener is
\* gone after the matching reply and after the timeout; the call is posted
\* once; a settled call stays as it is, whatever reply or timer comes later,
\* and one response event is emitted for it.
C32_FirstMatchingReplySettles ==
  [][/\ (Dispatches /\ ylistener /\ Head(yinbox).type = "moss-rpc-result"
           /\ Head(yinbox).id = RpcId(ThisCall))
          => /\ yresolved' = RpcData(RpcId(ThisCall))
             /\ ~ylistener'
     /\ (Dispatches /\ ~(Head(yinbox).type = "moss-rpc-result"
                         /\ Head(yinbox).id = RpcId(ThisCall)))
          => UNCHANGED <<ypc, ylistener, ytimer, yposts, yresolved, yemitted>>
     /\ ytimer' = "fired" => ~ylistener'
     /\ yresolved # Unresolved
          => /\ yresolved' = yresolved
             /\ ~ylistener'
             /\ yposts' = yposts
     /\ ypc = "done" => UNCHANGED <<ypc, yemitted, yposts>>
     /\ yposts' <= 1
     /\ ypc' \in {"await", "emit", "done"} /\ yiframe' = "present"
          => yposts' = 1
     /\ Len(yemitted') <= 1
     /\ ypc' = "done" => yemitted' = <<yresolved'>> \/ yiframe' # "present"
    ]_vars

\* The call timed out and answered; its reply came afterwards, after a
\* result of another call, and both were dispatched.
C32_ReplyAfterTimeoutWitness ==
  /\ ypc = "done"
  /\ yemitted = <<RpcTimedOut>>
  /\ yhandled = <<[type |-> "moss-rpc-result", id |-> RpcId(OtherCall)],
                  [type |-> "moss-rpc-result", id |-> RpcId(ThisCall)]>>
  /\ ~ylistener

\* C38: when the target iframe does not exist or has no content window, the
\* handler emits the single response {success: false, error: 'No iframe
\* found'}; it posts no message and registers no message listener and no
\* timer.
C38_NoIframeNoSideEffects ==
  yiframe \in {"missing", "no window"} =>
    /\ yposts = 0
    /\ ~ylistener
    /\ ytimer = "off"
    /\ yresolved = Unresolved
    /\ yemitted = IF ypc = "done" THEN <<RpcNoIframe>> ELSE <<>>

\* The handler found an iframe without content window and has answered;
\* the window got two messages since.
C38_NoWindowWitness ==
  /\ yiframe = "no window"
  /\ ypc = "done"
  /\ yemitted = <<RpcNoIframe>>
  /\ Len(yhandled) = 2

(***************************************************************************)
(* Claims about one captureIframeContent call, checked under SpecFrame.    *)
(***************************************************************************)
\* The window dispatches a message to the handler of the capture.
FrameDispatches == Len(zhandled') = Len(zhandled) + 1

\* C33: captureIframeContent resolves exactly once per call; a reply of
\* another type or with another id is ignored and leaves the listener
\* registered; once the call has resolved, by the matching reply or by the
\* deadline, its listener is removed and, after a matching reply, its timer
\* is cancelled: a finished call has neither listener nor armed timer, and
\* a later reply has no effect.
C33_ResolvesOnceAndCleansUp ==
  [][/\ Len(zresolves') <= 1
     /\ zpc' = "returned" /\ zwindow' => Len(zresolves') = 1
     /\ (FrameDispatches /\ ~FrameAccepts(Head(zinbox)))
          => UNCHANGED <<zpc, zlistener, ztimer, zresolves, zreturn, zposts>>
     /\ (FrameDispatches /\ FrameAccepts(Head(zinbox)) /\ zlistener)
          => /\ zresolves' = <<FrameValue(Head(zinbox))>>
             /\ ztimer' = "cleared"
     /\ zpc' = "returned" => ~zlistener' /\ ztimer' # "armed"
     /\ zpc' = "pending" => zlistener' /\ ztimer' = "armed"
     /\ zpc = "returned"
          => UNCHANGED <<zpc, zlistener, ztimer, zresolves, zreturn, zposts>>
    ]_vars

\* The call resolved with the data of the matching reply, which came after
\* a reply with another id; the timer is cancelled.
C33_ReplyClearsTimerWitness ==
  /\ zpc = "returned"
  /\ zreturn = "jpeg data url"
  /\ ztimer = "cleared"
  /\ Len(zhandled) = 2
  /\ zhandled[1].id = OtherCapture
  /\ zhandled[1].type = "moss-capture-preview-result"

\* C34: for each execute-js event the submitted code is evaluated at most
\* once, so its side effects happen at most once, also when the code throws
\* at run time.
C34_EvaluatedAtMostOnce == xruns <= 1

(***************************************************************************)
(* Claims about serialized callers, checked under SpecSerial.              *)
(***************************************************************************)
\* C35: when the calls of one command to one window are serialized, every
\* response handed to a call was emitted by the handler invocation that
\* this call triggered: the late response to a timed-out call is never
\* delivered as the result of the next call.
C35_SerialCallsGetOwnResponse ==
  \A o, p \in Requests : DeliveredTo(o, p) => o = p

\* C36: a local-storage set or remove on the key k1 leaves the stored value
\* of every other key unchanged, also when the text of k1 looks like a JSON
\* object or array.
C36_OtherKeysUntouched ==
  [][sreq'.action \in {"set", "remove"} =>
       \A k2 \in StoredKeys :
         k2 # sreq'.key => storage'[k2] = storage[k2]]_vars

(***************************************************************************)
(* Claims about the manage_local_storage tool, checked under               *)
(* SpecStorageTool.                                                        *)
(***************************************************************************)
\* The calls the claim is about: set or remove without a key or with the
\* empty key, and set without a value.
Rejected(a) ==
  \/ a.action \in {"set", "remove"} /\ a.key \in {Undefined, ""}
  \/ a.action = "set" /\ a.value = Undefined

\* C39: for a set or remove whose key is missing or empty, and for a set
\* whose value is undefined, the tool sends no command to the application,
\* returns an error result, and the stored data stays as it is.
C39_RejectedBeforeSending ==
  [][Rejected(margs') =>
       /\ msent' = NoStorageCommand
       /\ storage' = storage
       /\ mstage' \in {"called", "returned"}
       /\ mstage' = "returned" => mresult'.isError]_vars

\* A remove with the empty key was answered with an error while an item is
\* stored.
C39_EmptyKeyRemoveWitness ==
  /\ mstage = "returned"
  /\ margs.action = "remove"
  /\ margs.key = ""
  /\ mresult.isError
  /\ storage["k"] = "v"


\* The path the priority list gives an element: native input or textarea,
\* then the contentEditable cases by marker attribute, marker descendant and
\* neither, then everything else.
PathByCapability(e) ==
  CASE e.tag \in {"input", "textarea"} -> "simulateReactInputTyping"
    [] e.tag = "div" /\ e.editable /\ e.lexical -> "typeIntoLexicalEditor"
    [] e.tag = "div" /\ e.editable /\ ~e.lexical /\ e.slate ->
         "typeIntoSlateEditor"
    [] e.tag = "div" /\ e.editable /\ ~e.lexical /\ ~e.slate ->
         "typeIntoContentEditable"
    [] OTHER -> "element.textContent = text"

\* C37: for every element found by send-text-to-element exactly one
\* text-injection path runs, and it is the one the priority list gives:
\* keystroke simulation for a native input or textarea, the Lexical path for
\* a contentEditable with the marker attribute (also when it has a Slate
\* descendant), the Slate path for a contentEditable with a marker descendant
\* only, the generic path for any other contentEditable, and direct
\* assignment for anything else.
C37_OnePathByCapability ==
  /\ Len(jpath) <= 1
  /\ jpc \notin {"idle", "found"} => jpath = <<PathByCapability(jelement)>>

\* An element with both framework signatures was typed into and the response
\* emitted: the Lexical path ran.
C37_BothSignaturesWitness ==
  /\ jpc = "done"
  /\ jelement.tag = "div" /\ jelement.editable
  /\ jelement.lexical /\ jelement.slate
  /\ jpath = <<"typeIntoLexicalEditor">>


\* C40: the object URL that renderDomToCanvas creates for the SVG blob is
\* revoked exactly once on each outcome (drawn, draw threw, failed to load):
\* a URL is never revoked twice or before it exists, and none is left once
\* the rendering attempt is over.
C40_ObjectUrlRevokedOnce ==
  /\ docRevoked <= docCreated
  /\ docCreated <= 1
  /\ docPc \in {"composite", "fallback", "done"} =>
       docCreated = 1 /\ docRevoked = 1

\* The image loaded, drawImage threw, and the capture went on to its end
\* with the URL revoked.
C40_DrawThrewWitness ==
  /\ docPc = "done"
  /\ docSvg = "draw throws"
  /\ docCreated = 1
  /\ docRevoked = 1

====
